---- MODULE Spec2Model ----
(***************************************************************************)
(* State-machine model of the miniledger store: the accounts,              *)
(* transactions, entries and coa_settings tables, the SQL triggers of      *)
(* migration v1, the single-connection writer pool, and the operations of  *)
(* internal/store (CreateTransaction, CreateAccount, DeleteAccount,        *)
(* UpsertSetting, DeleteSetting, BalanceSheet).                            *)
(*                                                                         *)
(* db     is the committed database, the one every reader connection sees  *)
(*        (WAL journaling: a reader never sees an open write transaction). *)
(* writer is the goroutine that holds the one connection of the writer     *)
(*        pool inside a unit of work, 0 when the connection is free, and   *)
(*        Closed while no store is open on the database file.              *)
(* adm[p] is the CreateTransaction call of goroutine p; adm[p].w is the    *)
(*        working copy of its unit of work: Commit publishes it, Rollback  *)
(*        discards it.                                                     *)
(* res[p] is the error the last call of p returned ("ok" for nil).         *)
(* del    is the account a DeleteAccount call has checked and not yet      *)
(*        deleted.                                                         *)
(* Account ids are sequences of one-character strings so that the prefix   *)
(* test of Account.Validate is computed, not looked up.                    *)
(***************************************************************************)
EXTENDS Integers, Sequences, FiniteSets, TLC

(***************************************************************************)
(* Bounds of the model.                                                    *)
(***************************************************************************)
MaxAmt == 1       \* entry amounts range over -MaxAmt..MaxAmt, zero excluded
MaxEntries == 2   \* a submitted transaction carries 0..MaxEntries entries
MaxTxns == 2      \* at most MaxTxns transaction ids are handed out

Procs == {1, 2}                   \* request-handler goroutines admitting transactions
Amounts == ((-MaxAmt)..MaxAmt) \ {0}
Nil == "nil"

(***************************************************************************)
(* ledger.Category and the account ids the model uses.                     *)
(***************************************************************************)
CategoryAssets == "assets"
CategoryLiabilities == "liabilities"
CategoryEquity == "equity"
CategoryRevenue == "revenue"
CategoryExpenses == "expenses"
AllCategories ==
    {CategoryAssets, CategoryLiabilities, CategoryEquity, CategoryRevenue, CategoryExpenses}

FX == <<"~", "f", "x">>
SETTLEMENT == <<"~", "s", "e", "t", "t", "l", "e", "m", "e", "n", "t">>
SUSPENSE == <<"~", "s", "u", "s", "p", "e", "n", "s", "e">>
TAX == <<"~", "t", "a", "x">>
ESCROW == <<"~", "e", "s", "c", "r", "o", "w">>
CAPITAL == <<"~", "c", "a", "p", "i", "t", "a", "l">>
INTEREST == <<"~", "i", "n", "t", "e", "r", "e", "s", "t">>
FEES == <<"~", "f", "e", "e", "s">>
WRITEOFF == <<"~", "w", "r", "i", "t", "e", "o", "f", "f">>

\* ledger.SystemAccounts: the registry migrateV1 seeds.
SystemAccounts ==
    << [ID |-> FX,         Code |-> 1097, Category |-> CategoryAssets],
       [ID |-> SETTLEMENT, Code |-> 1098, Category |-> CategoryAssets],
       [ID |-> SUSPENSE,   Code |-> 1099, Category |-> CategoryAssets],
       [ID |-> TAX,        Code |-> 2098, Category |-> CategoryLiabilities],
       [ID |-> ESCROW,     Code |-> 2099, Category |-> CategoryLiabilities],
       [ID |-> CAPITAL,    Code |-> 3099, Category |-> CategoryEquity],
       [ID |-> INTEREST,   Code |-> 4099, Category |-> CategoryRevenue],
       [ID |-> FEES,       Code |-> 4090, Category |-> CategoryRevenue],
       [ID |-> WRITEOFF,   Code |-> 5091, Category |-> CategoryExpenses] >>

\* ledger.Currencies: the codes ValidCurrency accepts (those the model uses).
Currencies == {"USD", "EUR"}
ValidCurrency(code) == code \in Currencies

\* ledger.SettingName and ledger.EntryDirection.
SettingBlockInverted == "BLOCK_NORMAL_INVERTED"
SettingEntryDirection == "ENTRY_DIRECTION"
DirectionBoth == "BOTH"
DirectionDebitOnly == "DEBIT_ONLY"
DirectionCreditOnly == "CREDIT_ONLY"

DefaultCodeSettings(code) ==
    [Code |-> code, BlockInverted |-> FALSE, EntryDirection |-> DirectionBoth]

(***************************************************************************)
(* Sequence helpers.                                                       *)
(***************************************************************************)
Range(s) == {s[i] : i \in DOMAIN s}

RECURSIVE SumAmountsAlternating(_)
\* SumAmounts with a sign slip: every other row is subtracted.
SumAmountsAlternating(rows) ==
    IF rows = <<>> THEN 0 ELSE Head(rows).amount - SumAmountsAlternating(Tail(rows))

RECURSIVE SumAmounts(_)
\* SUM(amount) over a sequence of entry rows; 0 for no rows (COALESCE).
SumAmounts(rows) ==
    IF rows = <<>> THEN 0 ELSE Head(rows).amount + SumAmounts(Tail(rows))

(***************************************************************************)
(* Transaction.Validate                                                    *)
(***************************************************************************)
\* byCurrency[cur]: the running sum Validate keeps per entry currency.
byCurrency(entries, cur) ==
    SumAmounts(SelectSeq(entries, LAMBDA e : e.currency = cur))

Validate(t) ==
    IF t.description = "" THEN "ErrEmptyDescription"
    ELSE IF Len(t.entries) < 2 THEN "ErrTooFewEntries"
    ELSE IF \E e \in Range(t.entries) : byCurrency(t.entries, e.currency) # 0
         THEN "ErrUnbalancedTransaction"
    ELSE "ok"

(***************************************************************************)
(* The database.  A db is a record                                         *)
(*   accounts     : function from the ids of the account rows to the rows  *)
(*   transactions : function from the ids of the transaction rows to them  *)
(*   entries      : the entry rows in id order                             *)
(*   settings     : function from <<code, setting>> to value (coa_settings)*)
(*   seq          : the last id AUTOINCREMENT handed out for entries       *)
(*   schema_version : the versions recorded in the schema_version table    *)
(***************************************************************************)
VARIABLES db, writer, adm, res, del

vars == <<db, writer, adm, res, del>>

Put(f, k, v) == [x \in DOMAIN f \cup {k} |-> IF x = k THEN v ELSE f[x]]
Drop(f, k) == [x \in DOMAIN f \ {k} |-> f[x]]

EntriesOfTxn(d, id) == SelectSeq(d.entries, LAMBDA e : e.transaction_id = id)
EntriesOfAccount(d, id) == SelectSeq(d.entries, LAMBDA e : e.account_id = id)

IsFinalized(d, id) == id \in DOMAIN d.transactions /\ d.transactions[id].finalized = 1

\* migrateV1: the seed loop (currency "*" for ~fx, "USD" for the others).
SeedAccounts ==
    [id \in Range([i \in DOMAIN SystemAccounts |-> SystemAccounts[i].ID]) |->
        LET sa == CHOOSE x \in Range(SystemAccounts) : x.ID = id
        IN  [name |-> "n", code |-> sa.Code, category |-> sa.Category,
             currency |-> IF sa.ID = FX THEN "*" ELSE "USD", is_system |-> 1]]

\* The database Open leaves behind on a fresh file.
EmptyDB ==
    [accounts |-> SeedAccounts, transactions |-> <<>>, entries |-> <<>>,
     settings |-> <<>>, seq |-> 0, schema_version |-> {1}]

(***************************************************************************)
(* The triggers of migration v1.  Each is the condition under which the    *)
(* trigger raises ABORT for the statement.                                 *)
(***************************************************************************)
\* BEFORE UPDATE OF finalized ON transactions WHEN NEW.finalized = 1
trg_check_balance(d, id, newFinalized) ==
    /\ newFinalized = 1
    /\ \E e \in Range(EntriesOfTxn(d, id)) :
          SumAmounts(SelectSeq(EntriesOfTxn(d, id),
                               LAMBDA x : x.currency = e.currency)) # 0

\* BEFORE INSERT ON entries
trg_immutable_entries_insert(d, new) == IsFinalized(d, new.transaction_id)

\* BEFORE DELETE ON entries
trg_immutable_entries_delete(d, old) == IsFinalized(d, old.transaction_id)

\* BEFORE UPDATE ON entries
trg_immutable_entries_update(d, old) == IsFinalized(d, old.transaction_id)

\* trg_entry_currency_match never raising.
trg_entry_currency_match_dropped(d, new) == FALSE

\* trg_entry_currency_match without the exemption of the wildcard currency.
trg_entry_currency_match_strict(d, new) ==
    /\ new.account_id \in DOMAIN d.accounts
    /\ new.currency # d.accounts[new.account_id].currency

\* BEFORE INSERT ON entries; a NULL subquery (no such account) makes WHEN false.
trg_entry_currency_match(d, new) ==
    /\ new.account_id \in DOMAIN d.accounts
    /\ d.accounts[new.account_id].currency # "*"
    /\ new.currency # d.accounts[new.account_id].currency

\* entries.transaction_id REFERENCES transactions(id), entries.account_id
\* REFERENCES accounts(id), with foreign_keys(ON).
EntryForeignKeysOK(d, row) ==
    /\ row.transaction_id \in DOMAIN d.transactions
    /\ row.account_id \in DOMAIN d.accounts

(***************************************************************************)
(* SQL statements.  Each yields [ok, db]: ok = FALSE is a statement that   *)
(* failed (constraint or trigger ABORT) and changed nothing.               *)
(***************************************************************************)
Failed(d) == [ok |-> FALSE, db |-> d]
Done(d) == [ok |-> TRUE, db |-> d]

\* INSERT INTO transactions (id, description, finalized, posted_at): the primary key.
InsertTransactionRow(d, id, description, finalized) ==
    IF id \in DOMAIN d.transactions THEN Failed(d)
    ELSE Done([d EXCEPT !.transactions =
                 Put(@, id, [description |-> description, finalized |-> finalized])])

\* INSERT INTO transactions (id, description, posted_at): finalized defaults to 0.
InsertTransaction(d, id, description) == InsertTransactionRow(d, id, description, 0)

\* INSERT INTO entries (transaction_id, account_id, amount, currency)
InsertEntry(d, tid, aid, amount, currency) ==
    LET new == [id |-> d.seq + 1, transaction_id |-> tid, account_id |-> aid,
                amount |-> amount, currency |-> currency]
    IN  IF \/ trg_immutable_entries_insert(d, new)
           \/ trg_entry_currency_match(d, new)
           \/ ~EntryForeignKeysOK(d, new)
        THEN Failed(d)
        ELSE Done([d EXCEPT !.entries = Append(@, new), !.seq = @ + 1])

\* UPDATE transactions SET finalized = v WHERE id = ?
UpdateFinalized(d, id, v) ==
    IF id \notin DOMAIN d.transactions THEN Done(d)
    ELSE IF trg_check_balance(d, id, v) THEN Failed(d)
    ELSE Done([d EXCEPT !.transactions[id].finalized = v])

\* DELETE FROM transactions WHERE id = ?: entries.transaction_id REFERENCES it.
DeleteTransaction(d, id) ==
    IF \E e \in Range(d.entries) : e.transaction_id = id THEN Failed(d)
    ELSE Done([d EXCEPT !.transactions = Drop(@, id)])

\* UPDATE entries SET col = val WHERE id = (the id of row i)
UpdateEntry(d, i, col, val) ==
    LET old == d.entries[i]
        new == [old EXCEPT ![col] = val]
    IN  IF trg_immutable_entries_update(d, old) \/ ~EntryForeignKeysOK(d, new)
        THEN Failed(d)
        ELSE Done([d EXCEPT !.entries[i] = new])

\* DELETE FROM entries WHERE id = (the id of row i)
DeleteEntry(d, i) ==
    IF trg_immutable_entries_delete(d, d.entries[i]) THEN Failed(d)
    ELSE Done([d EXCEPT !.entries =
                 [k \in 1..(Len(@) - 1) |-> IF k < i THEN @[k] ELSE @[k + 1]]])

\* SELECT COALESCE(SUM(e.amount), 0) FROM entries e JOIN transactions t
\*   ON t.id = e.transaction_id AND t.finalized = 1 WHERE e.account_id = ?
FinalizedBalance(d, aid) ==
    SumAmounts(SelectSeq(d.entries,
        LAMBDA e : e.account_id = aid /\ IsFinalized(d, e.transaction_id)))

(***************************************************************************)
(* Store.CreateTransaction.  An admission in flight is a record            *)
(*   pc  : the statement it executes next                                  *)
(*   t   : the submitted transaction [id, description, entries]            *)
(*   w   : the working copy of its unit of work (tx)                       *)
(*   accountCodes, accountCats, codeSettingsCache : the three maps         *)
(*   i   : index of the next entry to insert                               *)
(*   err : the error it returns ("ok" for nil)                             *)
(***************************************************************************)
Idle == [pc |-> "idle"]

TxPCs == {"insert", "lookup", "entries", "check", "finalize", "commit"}

\* The rows of coa_settings for one code, folded over DefaultCodeSettings.
LoadCodeSettings(d, code) ==
    [Code |-> code,
     BlockInverted |->
        IF <<code, SettingBlockInverted>> \in DOMAIN d.settings
        THEN d.settings[<<code, SettingBlockInverted>>] = "1"
        ELSE DefaultCodeSettings(code).BlockInverted,
     EntryDirection |->
        IF <<code, SettingEntryDirection>> \in DOMAIN d.settings
        THEN d.settings[<<code, SettingEntryDirection>>]
        ELSE DefaultCodeSettings(code).EntryDirection]

\* return nil, fmt.Errorf(...): the call leaves with err, its unit of work open.
Fail(a, err) == [a EXCEPT !.pc = "failed", !.err = err]

\* Rollback that leaves the statements already executed in place.
RollbackKeepsWork(d, a) == a.w

\* deferred tx.Rollback() on an error return: the committed database d after
\* the unit of work of a is discarded.
Rollback(d, a) == d

\* A validated transaction about to call s.writer.BeginTx.
Validated(t) ==
    [pc |-> "begin", t |-> t, w |-> Nil, accountCodes |-> <<>>, accountCats |-> <<>>,
     codeSettingsCache |-> <<>>, i |-> 0, err |-> ""]

\* StepInsert as INSERT OR REPLACE: a row with the id is overwritten.
StepInsertOrReplace(a) ==
    [a EXCEPT !.pc = "lookup",
              !.w = [a.w EXCEPT !.transactions =
                        Put(@, a.t.id, [description |-> a.t.description, finalized |-> 0])]]

\* INSERT INTO transactions ... (finalized = 0)
StepInsert(a) ==
    LET r == InsertTransaction(a.w, a.t.id, a.t.description)
    IN  IF ~r.ok THEN Fail(a, "insert transaction")
        ELSE [a EXCEPT !.pc = "lookup", !.w = r.db]

\* StepLookup that leaves every code on its default settings.
StepLookupDefaults(a) ==
    LET ids == {e.account_id : e \in Range(a.t.entries)}
    IN  IF \E id \in ids : id \notin DOMAIN a.w.accounts
        THEN Fail(a, "lookup account")
        ELSE LET codes == [id \in ids |-> a.w.accounts[id].code]
             IN  [a EXCEPT !.pc = "entries", !.i = 1,
                    !.accountCodes = codes,
                    !.accountCats = [id \in ids |-> a.w.accounts[id].category],
                    !.codeSettingsCache =
                        [c \in {codes[id] : id \in ids} |-> DefaultCodeSettings(c)]]

\* The account lookups, then the settings of every code involved.
StepLookup(a) ==
    LET ids == {e.account_id : e \in Range(a.t.entries)}
    IN  IF \E id \in ids : id \notin DOMAIN a.w.accounts
        THEN Fail(a, "lookup account")
        ELSE LET codes == [id \in ids |-> a.w.accounts[id].code]
             IN  [a EXCEPT !.pc = "entries", !.i = 1,
                    !.accountCodes = codes,
                    !.accountCats = [id \in ids |-> a.w.accounts[id].category],
                    !.codeSettingsCache =
                        [c \in {codes[id] : id \in ids} |-> LoadCodeSettings(a.w, c)]]

\* StepEntry without the direction check.
StepEntryAnyDirection(a) ==
    LET e == a.t.entries[a.i]
        r == InsertEntry(a.w, a.t.id, e.account_id, e.amount, e.currency)
    IN  IF ~r.ok THEN Fail(a, "insert entry")
        ELSE [a EXCEPT !.w = r.db, !.i = @ + 1,
                       !.pc = IF a.i = Len(a.t.entries) THEN "check" ELSE "entries"]

\* StepEntry with the direction of every entry of the request checked before
\* the first INSERT.
StepEntryDirectionsFirst(a) ==
    LET e == a.t.entries[a.i]
        r == InsertEntry(a.w, a.t.id, e.account_id, e.amount, e.currency)
    IN  IF \E x \in Range(a.t.entries) :
              LET cs == a.codeSettingsCache[a.accountCodes[x.account_id]]
              IN  \/ cs.EntryDirection = DirectionDebitOnly /\ x.amount < 0
                  \/ cs.EntryDirection = DirectionCreditOnly /\ x.amount > 0
        THEN Fail(a, "ErrEntryDirectionViolation")
        ELSE IF ~r.ok THEN Fail(a, "insert entry")
        ELSE [a EXCEPT !.w = r.db, !.i = @ + 1,
                       !.pc = IF a.i = Len(a.t.entries) THEN "check" ELSE "entries"]

\* StepEntry judging the account by the sum of its entries in the request,
\* not the entry at hand.
StepEntryByTotal(a) ==
    LET e == a.t.entries[a.i]
        cs == a.codeSettingsCache[a.accountCodes[e.account_id]]
        total == SumAmounts(SelectSeq(a.t.entries, LAMBDA x : x.account_id = e.account_id))
        r == InsertEntry(a.w, a.t.id, e.account_id, e.amount, e.currency)
    IN  IF cs.EntryDirection = DirectionDebitOnly /\ total < 0
        THEN Fail(a, "ErrEntryDirectionViolation")
        ELSE IF cs.EntryDirection = DirectionCreditOnly /\ total > 0
        THEN Fail(a, "ErrEntryDirectionViolation")
        ELSE IF ~r.ok THEN Fail(a, "insert entry")
        ELSE [a EXCEPT !.w = r.db, !.i = @ + 1,
                       !.pc = IF a.i = Len(a.t.entries) THEN "check" ELSE "entries"]

\* StepEntry that stores twice the amount submitted.
StepEntryDoubled(a) ==
    LET e == a.t.entries[a.i]
        cs == a.codeSettingsCache[a.accountCodes[e.account_id]]
        r == InsertEntry(a.w, a.t.id, e.account_id, 2 * e.amount, e.currency)
    IN  IF cs.EntryDirection = DirectionDebitOnly /\ e.amount < 0
        THEN Fail(a, "ErrEntryDirectionViolation")
        ELSE IF cs.EntryDirection = DirectionCreditOnly /\ e.amount > 0
        THEN Fail(a, "ErrEntryDirectionViolation")
        ELSE IF ~r.ok THEN Fail(a, "insert entry")
        ELSE [a EXCEPT !.w = r.db, !.i = @ + 1,
                       !.pc = IF a.i = Len(a.t.entries) THEN "check" ELSE "entries"]

\* One round of the entry loop: the direction check, then the INSERT.
StepEntry(a) ==
    LET e == a.t.entries[a.i]
        cs == a.codeSettingsCache[a.accountCodes[e.account_id]]
        r == InsertEntry(a.w, a.t.id, e.account_id, e.amount, e.currency)
    IN  IF cs.EntryDirection = DirectionDebitOnly /\ e.amount < 0
        THEN Fail(a, "ErrEntryDirectionViolation")
        ELSE IF cs.EntryDirection = DirectionCreditOnly /\ e.amount > 0
        THEN Fail(a, "ErrEntryDirectionViolation")
        ELSE IF ~r.ok THEN Fail(a, "insert entry")
        ELSE [a EXCEPT !.w = r.db, !.i = @ + 1,
                       !.pc = IF a.i = Len(a.t.entries) THEN "check" ELSE "entries"]

\* Projected without the amounts of the transaction itself.
ProjectedStale(a, acctID) == FinalizedBalance(a.w, acctID)

\* The projected balance of one account of the transaction.
Projected(a, acctID) ==
    FinalizedBalance(a.w, acctID)
      + SumAmounts(SelectSeq(a.t.entries, LAMBDA e : e.account_id = acctID))

IsDebitNormal(cat) == cat = CategoryAssets \/ cat = CategoryExpenses

\* Inverted that also counts a balance of exactly zero as inverted.
InvertedAtZero(cat, balance) ==
    \/ IsDebitNormal(cat) /\ balance <= 0
    \/ ~IsDebitNormal(cat) /\ balance >= 0

\* The account would end on the wrong side of zero.
Inverted(cat, balance) ==
    \/ IsDebitNormal(cat) /\ balance < 0
    \/ ~IsDebitNormal(cat) /\ balance > 0

\* The block-inverted loop over accountCodes.
StepCheck(a) ==
    IF \E id \in DOMAIN a.accountCodes :
          /\ a.codeSettingsCache[a.accountCodes[id]].BlockInverted
          /\ Inverted(a.accountCats[id], Projected(a, id))
    THEN Fail(a, "ErrInvertedBalance")
    ELSE [a EXCEPT !.pc = "finalize"]

\* StepFinalize that goes on to the commit without the UPDATE.
StepFinalizeSkipped(a) == [a EXCEPT !.pc = "commit"]

\* UPDATE transactions SET finalized = 1 WHERE id = ?
StepFinalize(a) ==
    LET r == UpdateFinalized(a.w, a.t.id, 1)
    IN  IF ~r.ok THEN Fail(a, "finalize transaction")
        ELSE [a EXCEPT !.pc = "commit", !.w = r.db]

\* The next statement of an open unit of work.
StepTx(a) ==
    CASE a.pc = "insert" -> StepInsert(a)
      [] a.pc = "lookup" -> StepLookup(a)
      [] a.pc = "entries" -> StepEntry(a)
      [] a.pc = "check" -> StepCheck(a)
      [] a.pc = "finalize" -> StepFinalize(a)

RECURSIVE RunTx(_)
\* The statements from the current one up to tx.Commit or the error return.
RunTx(a) == IF a.pc \in {"commit", "failed"} THEN a ELSE RunTx(StepTx(a))

(***************************************************************************)
(* Account.Validate and the account operations of the store.               *)
(***************************************************************************)
Lower == {"a", "b", "c", "d", "e", "f", "g", "h", "i", "j", "k", "l", "m",
          "n", "o", "p", "q", "r", "s", "t", "u", "v", "w", "x", "y", "z"}
Upper == {"A", "B", "C", "D", "E", "F", "G", "H", "I", "J", "K", "L", "M",
          "N", "O", "P", "Q", "R", "S", "T", "U", "V", "W", "X", "Y", "Z"}
Digits == {"0", "1", "2", "3", "4", "5", "6", "7", "8", "9"}

HasPrefix(s, c) == Len(s) >= 1 /\ s[1] = c

\* open [a-zA-Z0-9_-]+ ":" [a-zA-Z]{3} close, anchored at both ends
CorrespondentShape(id, open, close) ==
    /\ Len(id) >= 7
    /\ id[1] = open
    /\ id[Len(id)] = close
    /\ id[Len(id) - 4] = ":"
    /\ \A k \in (Len(id) - 3)..(Len(id) - 1) : id[k] \in Lower \cup Upper
    /\ \A k \in 2..(Len(id) - 5) : id[k] \in Lower \cup Upper \cup Digits \cup {"_", "-"}

nostroPattern(id) == CorrespondentShape(id, "<", ">")
vostroPattern(id) == CorrespondentShape(id, ">", "<")

ValidateCorrespondentID(code, id) ==
    IF code = 1010 /\ ~nostroPattern(id) THEN "ErrInvalidCorrespondentID"
    ELSE IF code = 2010 /\ ~vostroPattern(id) THEN "ErrInvalidCorrespondentID"
    ELSE "ok"

CategoryForCode(code) ==
    IF code >= 1000 /\ code < 2000 THEN CategoryAssets
    ELSE IF code >= 2000 /\ code < 3000 THEN CategoryLiabilities
    ELSE IF code >= 3000 /\ code < 4000 THEN CategoryEquity
    ELSE IF code >= 4000 /\ code < 5000 THEN CategoryRevenue
    ELSE IF code >= 5000 /\ code < 6000 THEN CategoryExpenses
    ELSE "ErrInvalidAccountCode"

\* Account.Validate without the two prefix rules.
AccountValidateAnyPrefix(a) ==
    IF a.ID = <<>> THEN "ErrInvalidAccountID"
    ELSE IF a.IsSystem THEN (IF a.Name = "" THEN "account name is required" ELSE "ok")
    ELSE IF a.Code < 1000 \/ a.Code > 5999 THEN "ErrInvalidAccountCode"
    ELSE IF a.Category # CategoryForCode(a.Code) THEN "ErrCodeCategoryMismatch"
    ELSE IF ValidateCorrespondentID(a.Code, a.ID) # "ok"
         THEN ValidateCorrespondentID(a.Code, a.ID)
    ELSE IF a.Currency # "*" /\ ~ValidCurrency(a.Currency) THEN "ErrInvalidCurrency"
    ELSE IF a.Name = "" THEN "account name is required"
    ELSE "ok"

AccountValidate(a) ==
    IF a.ID = <<>> THEN "ErrInvalidAccountID"
    ELSE IF a.IsSystem /\ ~HasPrefix(a.ID, "~") THEN "ErrSystemAccountPrefix"
    ELSE IF ~a.IsSystem /\ HasPrefix(a.ID, "~") THEN "ErrNonSystemAccountTilde"
    ELSE IF a.IsSystem THEN (IF a.Name = "" THEN "account name is required" ELSE "ok")
    ELSE IF a.Code < 1000 \/ a.Code > 5999 THEN "ErrInvalidAccountCode"
    ELSE IF a.Category # CategoryForCode(a.Code) THEN "ErrCodeCategoryMismatch"
    ELSE IF ValidateCorrespondentID(a.Code, a.ID) # "ok"
         THEN ValidateCorrespondentID(a.Code, a.ID)
    ELSE IF a.Currency # "*" /\ ~ValidCurrency(a.Currency) THEN "ErrInvalidCurrency"
    ELSE IF a.Name = "" THEN "account name is required"
    ELSE "ok"

\* INSERT INTO accounts: the primary key and the CHECK on category.
InsertAccount(d, a) ==
    IF a.ID \in DOMAIN d.accounts \/ a.Category \notin AllCategories THEN Failed(d)
    ELSE Done([d EXCEPT !.accounts =
                 Put(@, a.ID, [name |-> a.Name, code |-> a.Code, category |-> a.Category,
                               currency |-> a.Currency,
                               is_system |-> IF a.IsSystem THEN 1 ELSE 0])])

\* Store.CreateAccount on database d: the error it returns and the database
\* it leaves.  A failed INSERT comes back wrapped as "insert account: ...".
CreateAccountResult(d, acct) ==
    IF AccountValidate(acct) # "ok" THEN [err |-> AccountValidate(acct), db |-> d]
    ELSE IF ~InsertAccount(d, acct).ok THEN [err |-> "insert account", db |-> d]
    ELSE [err |-> "ok", db |-> InsertAccount(d, acct).db]

\* mapError: the HTTP status of an error kind.
mapError(err) ==
    IF err \in {"ErrAccountNotFound", "ErrTransactionNotFound"} THEN 404
    ELSE IF err = "ErrDuplicateAccount" THEN 409
    ELSE IF err \in {"ErrUnbalancedTransaction", "ErrTooFewEntries", "ErrEmptyDescription",
                     "ErrInvalidAccountCode", "ErrInvalidAccountID", "ErrInvalidCategory",
                     "ErrCodeCategoryMismatch", "ErrInvalidCurrency", "ErrCurrencyMismatch",
                     "ErrSystemAccountPrefix", "ErrNonSystemAccountTilde"} THEN 400
    ELSE IF err \in {"ErrInvertedBalance", "ErrEntryDirectionViolation"} THEN 422
    ELSE 500

\* DeleteAccountRow on a connection without foreign_keys(ON).
DeleteAccountRowUnenforced(d, id) == Done([d EXCEPT !.accounts = Drop(@, id)])

\* DELETE FROM accounts WHERE id = ?: entries.account_id REFERENCES accounts(id).
DeleteAccountRow(d, id) ==
    IF \E e \in Range(d.entries) : e.account_id = id THEN Failed(d)
    ELSE Done([d EXCEPT !.accounts = Drop(@, id)])

\* validDirection of the settings screen: the direction does not contradict
\* BlockInverted for a code of category cat.
validDirection(cat, dir) ==
    IF dir = DirectionBoth THEN TRUE
    ELSE IF IsDebitNormal(cat) /\ dir = DirectionCreditOnly THEN FALSE
    ELSE IF ~IsDebitNormal(cat) /\ dir = DirectionDebitOnly THEN FALSE
    ELSE TRUE

\* correctedDirection with the two answers exchanged.
correctedDirectionSwapped(cat) ==
    IF IsDebitNormal(cat) THEN DirectionCreditOnly ELSE DirectionDebitOnly

\* correctedDirection of the settings screen: the safe direction of a category.
correctedDirection(cat) ==
    IF IsDebitNormal(cat) THEN DirectionDebitOnly ELSE DirectionCreditOnly

(***************************************************************************)
(* Reports.                                                                *)
(***************************************************************************)
\* ledger.FXRatesToGEL, in hundredths: the fixed rates to the reporting currency.
FXRatesToGEL == [c \in {"USD", "EUR"} |-> IF c = "USD" THEN 270 ELSE 295]

\* Integer division that truncates toward zero.
TruncDiv(a, b) == IF a >= 0 THEN a \div b ELSE -((-a) \div b)

\* ledger.ToGEL: the amount times the fixed rate, truncated toward zero.
ToGEL(amount, currency) == TruncDiv(amount * FXRatesToGEL[currency], 100)

\* COALESCE(SUM(e.amount), 0) of the balance-sheet query: the LEFT JOIN on
\* transactions filters nothing, every entry of the account counts.
SheetBalance(d, id) == SumAmounts(EntriesOfAccount(d, id))

RECURSIVE SumGEL(_, _)
\* The running total of one section over a set of account ids.
SumGEL(d, ids) ==
    IF ids = {} THEN 0
    ELSE LET id == CHOOSE x \in ids : TRUE
         IN  ToGEL(SheetBalance(d, id), d.accounts[id].currency) + SumGEL(d, ids \ {id})

\* Store.BalanceSheet: the lines with a balance, wildcard accounts skipped,
\* the three section totals in GEL and the balanced flag.
BalanceSheet(d) ==
    LET lines == {id \in DOMAIN d.accounts :
                    SheetBalance(d, id) # 0 /\ d.accounts[id].currency # "*"}
        total(cat) == SumGEL(d, {id \in lines : d.accounts[id].category = cat})
    IN  [TotalAssets |-> total(CategoryAssets),
         TotalLiabilities |-> total(CategoryLiabilities),
         TotalEquity |-> total(CategoryEquity),
         Balanced |-> total(CategoryAssets) + total(CategoryLiabilities)
                        + total(CategoryEquity) = 0]

\* GetTransaction with the entries read back newest first.
GetTransactionNewestFirst(d, id) ==
    IF id \notin DOMAIN d.transactions THEN [err |-> "ErrTransactionNotFound"]
    ELSE [err |-> "ok", ID |-> id, Description |-> d.transactions[id].description,
          Finalized |-> d.transactions[id].finalized = 1,
          Entries |-> [i \in DOMAIN EntriesOfTxn(d, id) |->
                         EntriesOfTxn(d, id)[Len(EntriesOfTxn(d, id)) + 1 - i]]]

\* Store.GetTransaction: the row, then its entries ORDER BY id.
GetTransaction(d, id) ==
    IF id \notin DOMAIN d.transactions THEN [err |-> "ErrTransactionNotFound"]
    ELSE [err |-> "ok", ID |-> id, Description |-> d.transactions[id].description,
          Finalized |-> d.transactions[id].finalized = 1,
          Entries |-> EntriesOfTxn(d, id)]

\* Store.ListTransactions without limit: the ids of the finalized
\* transactions, those with an entry on accountID when the filter names one.
ListTransactions(d, accountID) ==
    {id \in DOMAIN d.transactions :
        /\ d.transactions[id].finalized = 1
        /\ accountID # <<>> => \E e \in Range(d.entries) :
                                e.transaction_id = id /\ e.account_id = accountID}

\* Store.ListEntriesByAccount without limit: the entries of the account that
\* belong to finalized transactions.
ListEntriesByAccount(d, accountID) ==
    {e \in Range(d.entries) : e.account_id = accountID /\ IsFinalized(d, e.transaction_id)}

\* Store.AccountBalance: GetAccount, then the sum over finalized entries.
AccountBalance(d, accountID) ==
    IF accountID \notin DOMAIN d.accounts THEN [err |-> "ErrAccountNotFound", balance |-> 0]
    ELSE [err |-> "ok", balance |-> FinalizedBalance(d, accountID)]

RECURSIVE SumBalances(_, _)
\* The per-account balances of the trial-balance query over a set of
\* account ids, added up.
SumBalances(d, ids) ==
    IF ids = {} THEN 0
    ELSE LET id == CHOOSE x \in ids : TRUE
         IN  SheetBalance(d, id) + SumBalances(d, ids \ {id})

\* TrialBalance with the wildcard accounts left out, as BalanceSheet does.
TrialBalanceSkippingWildcard(d) ==
    LET lines == {id \in DOMAIN d.accounts :
                    SheetBalance(d, id) # 0 /\ d.accounts[id].currency # "*"}
        debit == SumBalances(d, {id \in lines : SheetBalance(d, id) > 0})
        credit == -SumBalances(d, {id \in lines : SheetBalance(d, id) <= 0})
    IN  [Lines |-> lines, TotalDebit |-> debit, TotalCredit |-> credit,
         Balanced |-> debit = credit]

\* Store.TrialBalance: one line per account with a balance; a positive
\* balance goes to the Debit column, any other to the Credit column.
TrialBalance(d) ==
    LET lines == {id \in DOMAIN d.accounts : SheetBalance(d, id) # 0}
        debit == SumBalances(d, {id \in lines : SheetBalance(d, id) > 0})
        credit == -SumBalances(d, {id \in lines : SheetBalance(d, id) <= 0})
    IN  [Lines |-> lines, TotalDebit |-> debit, TotalCredit |-> credit,
         Balanced |-> debit = credit]

(***************************************************************************)
(* Inputs of the operations.                                               *)
(***************************************************************************)
E == <<"e">>                                    \* a customer account id

SeqsUpTo(S, n) == UNION {[1..k -> S] : k \in 0..n}

EntryInputs(accts) == [account_id : accts, amount : Amounts, currency : Currencies]

\* uuid.NewV7(): unique and time-sortable, so larger than every id in use.
UsedIDs == DOMAIN db.transactions \cup {adm[p].t.id : p \in {q \in Procs : adm[q] # Idle}}
NewID == IF UsedIDs = {} THEN 1 ELSE 1 + (CHOOSE m \in UsedIDs : \A x \in UsedIDs : x <= m)

\* Requests over the accounts accts with an id from ids, a description and
\* up to MaxEntries entries.  An empty description is rejected before
\* anything else is looked at, so one entry list stands for all.
TxnInputs(ids, accts) ==
    [id : ids, description : {"d"}, entries : SeqsUpTo(EntryInputs(accts), MaxEntries)]
    \cup [id : ids, description : {""}, entries : {<<>>}]

\* A stored transaction sent again under its id, entry for entry.
Resubmissions ==
    {[id |-> id, description |-> db.transactions[id].description,
      entries |-> [i \in DOMAIN EntriesOfTxn(db, id) |->
                     [account_id |-> EntriesOfTxn(db, id)[i].account_id,
                      amount |-> EntriesOfTxn(db, id)[i].amount,
                      currency |-> EntriesOfTxn(db, id)[i].currency]]] :
        id \in DOMAIN db.transactions}

\* The id a request without one is given, while fewer than n are in use.
FreshIDs(n) == {i \in {NewID} : i <= n}

\* Accounts a client asks for: customer accounts of code 2020 under the id
\* E, and ~settlement again after it was deleted.
AccountInputs ==
    [ID : {E}, Name : {"n"}, Code : {2020},
     Category : {CategoryLiabilities, CategoryAssets},
     Currency : Currencies \cup {"*", "XXX"}, IsSystem : {FALSE}]
    \cup [ID : {SETTLEMENT}, Name : {"n"}, Code : {1098}, Category : {CategoryAssets},
          Currency : Currencies, IsSystem : {TRUE, FALSE}]

\* Accounts a client asks for under the ids E and ~settlement: codes inside
\* and outside 1000..5999, categories that match the code or not, a missing
\* category, supported, wildcard and unknown currencies, either flag.
ChartInputs ==
    [ID : {E, SETTLEMENT}, Name : {"n"}, Code : {999, 1098, 2020},
     Category : {CategoryAssets, CategoryLiabilities, ""},
     Currency : {"USD", "*", "XXX"}, IsSystem : BOOLEAN]

\* The values Server.upsertSetting lets through that differ from the defaults.
SettingInputs(codes) ==
    (codes \X {SettingBlockInverted} \X {"1"})
    \cup (codes \X {SettingEntryDirection} \X {DirectionDebitOnly, DirectionCreditOnly})

(***************************************************************************)
(* Initial state: the store just opened on a fresh database file.          *)
(***************************************************************************)
Init ==
    /\ db = EmptyDB
    /\ writer = 0
    /\ adm = [p \in Procs |-> Idle]
    /\ res = [p \in Procs |-> ""]
    /\ del = Nil

(***************************************************************************)
(* CreateTransaction, statement by statement.                              *)
(***************************************************************************)
\* Submit with txn.Validate() called after the writer connection is free.
SubmitAfterWriter(p, t) ==
    /\ adm[p] = Idle
    /\ writer = 0
    /\ IF Validate(t) # "ok"
       THEN /\ res' = [res EXCEPT ![p] = Validate(t)]
            /\ UNCHANGED adm
       ELSE /\ adm' = [adm EXCEPT ![p] = Validated(t)]
            /\ res' = [res EXCEPT ![p] = ""]
    /\ UNCHANGED <<db, writer, del>>

\* Lines 14-23: the id and posted_at defaults, then txn.Validate().
Submit(p, t) ==
    /\ adm[p] = Idle
    /\ IF Validate(t) # "ok"
       THEN /\ res' = [res EXCEPT ![p] = Validate(t)]
            /\ UNCHANGED adm
       ELSE /\ adm' = [adm EXCEPT ![p] = Validated(t)]
            /\ res' = [res EXCEPT ![p] = ""]
    /\ UNCHANGED <<db, writer, del>>

\* BeginTx on a writer pool that hands out a connection while one is in use.
BeginTxUnguarded(p) ==
    /\ adm[p].pc = "begin"
    /\ writer' = p
    /\ adm' = [adm EXCEPT ![p] = [@ EXCEPT !.pc = "insert", !.w = db]]
    /\ UNCHANGED <<db, res, del>>

\* s.writer.BeginTx: the pool has one connection (SetMaxOpenConns(1)).
BeginTx(p) ==
    /\ adm[p].pc = "begin"
    /\ writer = 0
    /\ writer' = p
    /\ adm' = [adm EXCEPT ![p] = [@ EXCEPT !.pc = "insert", !.w = db]]
    /\ UNCHANGED <<db, res, del>>

\* One statement inside the unit of work; an error returns through Rollback.
Statement(p) ==
    /\ adm[p].pc \in TxPCs \ {"commit"}
    /\ LET a == StepTx(adm[p])
       IN  IF a.pc = "failed"
           THEN /\ adm' = [adm EXCEPT ![p] = Idle]
                /\ res' = [res EXCEPT ![p] = a.err]
                /\ db' = Rollback(db, a)
                /\ writer' = 0
           ELSE /\ adm' = [adm EXCEPT ![p] = a]
                /\ UNCHANGED <<db, res, writer>>
    /\ UNCHANGED del

\* tx.Commit(): the unit of work becomes the committed database.
Commit(p) ==
    /\ adm[p].pc = "commit"
    /\ db' = adm[p].w
    /\ writer' = 0
    /\ adm' = [adm EXCEPT ![p] = Idle]
    /\ res' = [res EXCEPT ![p] = "ok"]
    /\ UNCHANGED del

\* Abort whose unit of work is published instead of rolled back.
AbortKeepsWork(p) ==
    /\ adm[p].pc \in TxPCs \cup {"begin"}
    /\ adm' = [adm EXCEPT ![p] = Idle]
    /\ res' = [res EXCEPT ![p] = "storage"]
    /\ db' = IF writer = p THEN adm[p].w ELSE db
    /\ writer' = IF writer = p THEN 0 ELSE writer
    /\ UNCHANGED del

\* The context is cancelled, or the storage fails, under the current statement.
Abort(p) ==
    /\ adm[p].pc \in TxPCs \cup {"begin"}
    /\ adm' = [adm EXCEPT ![p] = Idle]
    /\ res' = [res EXCEPT ![p] = "storage"]
    /\ db' = IF writer = p THEN Rollback(db, adm[p]) ELSE db
    /\ writer' = IF writer = p THEN 0 ELSE writer
    /\ UNCHANGED del

\* The whole call on database d: the error it returns and the database it leaves.
CreateTransactionResult(d, t) ==
    IF Validate(t) # "ok" THEN [err |-> Validate(t), db |-> d]
    ELSE LET a == RunTx([Validated(t) EXCEPT !.pc = "insert", !.w = d])
         IN  IF a.pc = "commit" THEN [err |-> "ok", db |-> a.w]
             ELSE [err |-> a.err, db |-> Rollback(d, a)]

\* The whole call as one step: no other writer can interleave with it.
CreateTransaction(t) ==
    /\ writer = 0
    /\ db' = CreateTransactionResult(db, t).db
    /\ UNCHANGED <<writer, adm, res, del>>

(***************************************************************************)
(* Settings and accounts: single statements on the writer connection.      *)
(***************************************************************************)
\* INSERT ... ON CONFLICT(code, setting) DO UPDATE SET value = excluded.value
UpsertSetting(code, name, value) ==
    /\ writer = 0
    /\ db' = [db EXCEPT !.settings = Put(@, <<code, name>>, value)]
    /\ UNCHANGED <<writer, adm, res, del>>

\* DeleteSetting without the "AND setting = ?": every row of the code goes.
DeleteSettingWholeCode(code, name) ==
    /\ writer = 0
    /\ db' = [db EXCEPT !.settings =
                 [k \in {j \in DOMAIN @ : j[1] # code} |-> @[k]]]
    /\ UNCHANGED <<writer, adm, res, del>>

\* DELETE FROM coa_settings WHERE code = ? AND setting = ?
DeleteSetting(code, name) ==
    /\ writer = 0
    /\ db' = [db EXCEPT !.settings = Drop(@, <<code, name>>)]
    /\ UNCHANGED <<writer, adm, res, del>>

CreateAccount(acct) ==
    /\ writer = 0
    /\ AccountValidate(acct) = "ok"
    /\ InsertAccount(db, acct).ok
    /\ db' = InsertAccount(db, acct).db
    /\ UNCHANGED <<writer, adm, res, del>>

\* DeleteAccount, first half: GetAccount and the COUNT(*) on the reader pool.
DeleteAccountCheck(id) ==
    /\ del = Nil
    /\ id \in DOMAIN db.accounts
    /\ Len(EntriesOfAccount(db, id)) = 0
    /\ del' = id
    /\ UNCHANGED <<db, writer, adm, res>>

\* DeleteAccount, second half: the DELETE on the writer.
DeleteAccountExec ==
    /\ del # Nil
    /\ writer = 0
    /\ db' = DeleteAccountRow(db, del).db
    /\ del' = Nil
    /\ UNCHANGED <<writer, adm, res>>

(***************************************************************************)
(* Spec: sequences of whole admissions and settings changes.               *)
(***************************************************************************)
LedgerAccounts == {SETTLEMENT, TAX, FX}
LedgerCodes == {1098, 2098}

Next ==
    \/ \E t \in TxnInputs(FreshIDs(MaxTxns), LedgerAccounts) : CreateTransaction(t)
    \/ \E x \in SettingInputs(LedgerCodes) : UpsertSetting(x[1], x[2], x[3])
    \/ \E c \in LedgerCodes, n \in {SettingBlockInverted, SettingEntryDirection} :
          DeleteSetting(c, n)

Spec == Init /\ [][Next]_vars

(***************************************************************************)
(* Properties of the ledger under Spec.                                    *)
(***************************************************************************)
\* The amounts of the rows of d.entries at the indices idx, added up.
RECURSIVE Total(_, _)
Total(rows, idx) ==
    IF idx = {} THEN 0
    ELSE LET i == CHOOSE x \in idx : TRUE IN rows[i].amount + Total(rows, idx \ {i})

\* The entries of transaction id in currency c sum to zero.
BalancedIn(d, id, c) ==
    Total(d.entries, {i \in DOMAIN d.entries :
                        d.entries[i].transaction_id = id /\ d.entries[i].currency = c}) = 0

\* The rows an admission step added to the entries table.
NewEntries == {db'.entries[i] : i \in (Len(db.entries) + 1)..Len(db'.entries)}

\* The settings in force for the code of account id in database d.
SettingsOf(d, id) == LoadCodeSettings(d, d.accounts[id].code)

Deposit == [id |-> NewID, description |-> "d",
            entries |-> <<[account_id |-> SETTLEMENT, amount |-> 1, currency |-> "USD"],
                          [account_id |-> TAX, amount |-> -1, currency |-> "USD"]>>]
Withdrawal == [id |-> NewID, description |-> "d",
               entries |-> <<[account_id |-> SETTLEMENT, amount |-> -1, currency |-> "USD"],
                             [account_id |-> TAX, amount |-> 1, currency |-> "USD"]>>]

\* C1: in every reachable state of the store, the entries of every finalized
\* transaction sum to zero in each currency.
C1_FinalizedBalanced ==
    \A id \in DOMAIN db.transactions :
        db.transactions[id].finalized = 1 =>
            \A c \in Currencies : BalancedIn(db, id, c)

\* A finalized transaction whose entries move money is stored.
C1_Witness ==
    \E id \in DOMAIN db.transactions :
        /\ db.transactions[id].finalized = 1
        /\ \E e \in Range(EntriesOfTxn(db, id)) : e.amount # 0

\* C6 as written: whenever the code of an account has BlockInverted set, the
\* finalized balance of the account is on its normal side (>= 0 for a
\* debit-normal account, <= 0 for a credit-normal one).
C6_NormalSideWhileSet ==
    \A id \in DOMAIN db.accounts :
        SettingsOf(db, id).BlockInverted =>
            ~Inverted(db.accounts[id].category, FinalizedBalance(db, id))

\* C6, amended: an admission that succeeds leaves every account it posts to,
\* whose code had BlockInverted set when it was admitted, on its normal side.
C6_AdmissionKeepsNormalSide ==
    [][\A e \in NewEntries :
          SettingsOf(db, e.account_id).BlockInverted =>
              ~Inverted(db.accounts[e.account_id].category,
                        FinalizedBalance(db', e.account_id))]_vars

\* ~settlement holds a balance under BlockInverted, and a withdrawal beyond
\* the balance is turned down.
C6_Witness ==
    /\ SettingsOf(db, SETTLEMENT).BlockInverted
    /\ FinalizedBalance(db, SETTLEMENT) = 0
    /\ Len(EntriesOfAccount(db, SETTLEMENT)) > 0
    /\ CreateTransactionResult(db, Withdrawal).err = "ErrInvertedBalance"

\* C7 as written: whenever the code of an account is DEBIT_ONLY every stored
\* entry of the account is >= 0, and whenever it is CREDIT_ONLY every stored
\* entry is <= 0.
C7_DirectionWhileSet ==
    \A e \in Range(db.entries) :
        /\ SettingsOf(db, e.account_id).EntryDirection = DirectionDebitOnly => e.amount >= 0
        /\ SettingsOf(db, e.account_id).EntryDirection = DirectionCreditOnly => e.amount <= 0

\* C7, amended: every entry an admission stores obeys the direction that was
\* in force for the code of its account when it was admitted.
C7_AdmissionObeysDirection ==
    [][\A e \in NewEntries :
          /\ SettingsOf(db, e.account_id).EntryDirection = DirectionDebitOnly => e.amount >= 0
          /\ SettingsOf(db, e.account_id).EntryDirection = DirectionCreditOnly => e.amount <= 0]_vars

\* ~settlement is DEBIT_ONLY and carries a debit; a credit to it is turned down.
C7_Witness ==
    /\ SettingsOf(db, SETTLEMENT).EntryDirection = DirectionDebitOnly
    /\ \E e \in Range(EntriesOfAccount(db, SETTLEMENT)) : e.amount > 0
    /\ CreateTransactionResult(db, Withdrawal).err = "ErrEntryDirectionViolation"

\* C10: after any sequence of successful admissions the balance sheet has
\* total_assets + total_liabilities + total_equity = 0 in GEL and is balanced.
C10_SheetBalanced ==
    /\ BalanceSheet(db).TotalAssets + BalanceSheet(db).TotalLiabilities
          + BalanceSheet(db).TotalEquity = 0
    /\ BalanceSheet(db).Balanced

\* C11: in every state reached by successful admissions the trial balance
\* has equal Debit and Credit totals and reports balanced = true.
C11_TrialBalanced ==
    /\ TrialBalance(db).TotalDebit = TrialBalance(db).TotalCredit
    /\ TrialBalance(db).Balanced

\* The trial balance has lines on both sides, one of them the wildcard
\* account ~fx.
C11_Witness ==
    /\ TrialBalance(db).TotalDebit > 0
    /\ FX \in TrialBalance(db).Lines
    /\ Cardinality(TrialBalance(db).Lines) >= 2

\* Entry e of a request names an account of d whose currency is neither
\* the wildcard nor the currency of e.
CurrencyMismatch(d, e) ==
    /\ e.account_id \in DOMAIN d.accounts
    /\ d.accounts[e.account_id].currency # "*"
    /\ d.accounts[e.account_id].currency # e.currency

\* C21: a rejected admission reports the kind of the rule it breaks: a
\* request that passes Validate and has an entry whose currency differs
\* from that of its non-wildcard account is turned down as invalid input,
\* ErrCurrencyMismatch with status 400 (unless a direction rule turns it
\* down first), never as a storage error with status 500.
C21_MismatchIsInvalidInput ==
    \A t \in TxnInputs({NewID}, LedgerAccounts) :
        (Validate(t) = "ok" /\ \E e \in Range(t.entries) : CurrencyMismatch(db, e)) =>
            LET err == CreateTransactionResult(db, t).err
            IN  /\ mapError(err) # 500
                /\ err # "ErrEntryDirectionViolation" =>
                      (err = "ErrCurrencyMismatch" /\ mapError(err) = 400)

\* C22: after any sequence of settings operations no code has BlockInverted
\* on together with a direction that contradicts it (CREDIT_ONLY on a
\* debit-normal code, DEBIT_ONLY on a credit-normal code) in coa_settings.
C22_NoContradictorySettings ==
    \A c \in LedgerCodes :
        LoadCodeSettings(db, c).BlockInverted =>
            validDirection(CategoryForCode(c), LoadCodeSettings(db, c).EntryDirection)

(***************************************************************************)
(* SpecSteps: one goroutine admitting transactions statement by statement, *)
(* with settings changes in between.  ~settlement and ~fx exist, E does    *)
(* not; a request may repeat a transaction that is already stored.         *)
(***************************************************************************)
StepAccounts == {SETTLEMENT, FX, E}
StepCodes == {1098}

NextSteps ==
    \/ \E t \in TxnInputs(FreshIDs(MaxTxns), StepAccounts) \cup Resubmissions : Submit(1, t)
    \/ BeginTx(1)
    \/ Statement(1)
    \/ Commit(1)
    \/ Abort(1)
    \/ \E x \in SettingInputs(StepCodes) : UpsertSetting(x[1], x[2], x[3])

SpecSteps == Init /\ [][NextSteps]_vars

\* Goroutine p takes a step of its CreateTransaction call.
CallStep(p) == adm'[p] # adm[p] \/ res'[p] # res[p]

\* C2: when CreateTransaction returns an error, at whatever step, the
\* committed database is what it was: no row the call wrote persists.
C2_ErrorLeavesNoTrace ==
    [][\A p \in Procs :
          (CallStep(p) /\ res'[p] \notin {"", "ok"}) => db' = db]_vars

\* A call has failed inside its unit of work, after rows were written to it.
C2_Witness ==
    /\ res[1] \in {"insert entry", "ErrInvertedBalance", "ErrEntryDirectionViolation"}
    /\ adm[1] = Idle
    /\ db.transactions # <<>>

\* C4: the finalized flag of a transaction goes from false to true once,
\* inside the unit of work that admits it: the row is unfinalized from its
\* insert up to the finalize statement and finalized at the commit; and in
\* every committed state every transaction row is finalized with at least
\* two entries.
C4_CommittedRowsFinalized ==
    /\ \A id \in DOMAIN db.transactions :
          /\ db.transactions[id].finalized = 1
          /\ Len(EntriesOfTxn(db, id)) >= 2
    /\ \A p \in Procs :
          /\ adm[p].pc \in {"lookup", "entries", "check", "finalize"} =>
                adm[p].w.transactions[adm[p].t.id].finalized = 0
          /\ adm[p].pc = "commit" =>
                /\ adm[p].w.transactions[adm[p].t.id].finalized = 1
                /\ Len(EntriesOfTxn(adm[p].w, adm[p].t.id)) >= 2

\* A second admission is about to finalize: its row and entries are in the
\* unit of work, unfinalized, and the committed database does not show them.
C4_Witness ==
    /\ adm[1].pc = "finalize"
    /\ db.transactions # <<>>
    /\ adm[1].t.id \notin DOMAIN db.transactions
    /\ Len(EntriesOfTxn(adm[1].w, adm[1].t.id)) = 2

\* What request t posts to account id, in all.
Posted(t, id) == SumAmounts(SelectSeq(t.entries, LAMBDA e : e.account_id = id))

\* What is stored of entry row e that the caller submitted.
Submitted(e) == [account_id |-> e.account_id, amount |-> e.amount, currency |-> e.currency]

\* Transaction t is in database d whole: its row finalized, its entries
\* all there, in the order submitted.
Stored(d, t) ==
    /\ IsFinalized(d, t.id)
    /\ [i \in DOMAIN EntriesOfTxn(d, t.id) |-> Submitted(EntriesOfTxn(d, t.id)[i])] = t.entries

\* C13: an admission that is cancelled, at whatever point of the protocol,
\* ends in one of two states: the whole transaction committed, finalized,
\* with all its entries, or nothing of it persisted.  No committed state
\* holds an unfinalized transaction row or a row short of entries.
C13_CancelAllOrNothing ==
    /\ [](\A id \in DOMAIN db.transactions :
            /\ db.transactions[id].finalized = 1
            /\ Len(EntriesOfTxn(db, id)) >= 2)
    /\ [][\A p \in Procs :
            (adm[p] # Idle /\ adm'[p] = Idle) =>
                \/ res'[p] = "ok" /\ Stored(db', adm[p].t)
                \/ res'[p] # "ok" /\ db' = db]_vars

\* A call was cancelled, no call is in progress, and the database holds a
\* committed transaction.
C13_Witness ==
    /\ res[1] = "storage"
    /\ adm[1] = Idle
    /\ writer = 0
    /\ db.transactions # <<>>

\* The accounts request t posts to.
AccountsOf(t) == {e.account_id : e \in Range(t.entries)}

Transfers ==
    {[id |-> i, description |-> "d",
      entries |-> <<[account_id |-> SETTLEMENT, amount |-> x, currency |-> "USD"],
                    [account_id |-> TAX, amount |-> -x, currency |-> "USD"]>>] :
        i \in FreshIDs(MaxTxns + 1), x \in Amounts}

NextRace ==
    \/ \E p \in Procs, t \in Transfers : Submit(p, t)
    \/ \E p \in Procs : BeginTx(p)
    \/ \E p \in Procs : Statement(p)
    \/ \E p \in Procs : Commit(p)
    \/ \E c \in LedgerCodes : UpsertSetting(c, SettingBlockInverted, "1")

SpecRace == Init /\ [][NextRace]_vars

\* Admitted on top of the committed database, request t would put an account
\* whose code has BlockInverted set on the wrong side of zero.
WouldInvert(t) ==
    \E id \in {e.account_id : e \in Range(t.entries)} :
        /\ SettingsOf(db, id).BlockInverted
        /\ Inverted(db.accounts[id].category, FinalizedBalance(db, id) + Posted(t, id))

\* Goroutine p drains ~settlement to exactly zero, seen from the committed database.
DrainsToZero(p) ==
    /\ adm[p] # Idle
    /\ Posted(adm[p].t, SETTLEMENT) < 0
    /\ FinalizedBalance(db, SETTLEMENT) + Posted(adm[p].t, SETTLEMENT) = 0

\* C5: of two concurrent admissions that would each, alone, leave the same
\* BlockInverted account at exactly zero, the one that comes second does
\* not succeed: its call returns the inverted-balance violation.  Stated
\* for every call: a call that returns while its request would invert an
\* account on top of the committed database returns ErrInvertedBalance.
C5_SecondDrainRejected ==
    [][\A p \in Procs :
          (adm[p] # Idle /\ adm'[p] = Idle /\ WouldInvert(adm[p].t))
              => res'[p] = "ErrInvertedBalance"]_vars

\* Both goroutines are in their calls with a drain to zero of ~settlement,
\* under BlockInverted; the first is about to commit, the second waits for
\* the writer.
C5_Witness ==
    /\ SettingsOf(db, SETTLEMENT).BlockInverted
    /\ DrainsToZero(1) /\ DrainsToZero(2)
    /\ adm[1].pc = "commit"
    /\ adm[2].pc = "begin"

\* The goroutines inside a write unit of work.
InUnitOfWork == {p \in Procs : adm[p].pc \in TxPCs}

\* C12: mutating operations are serialized.  At most one write unit of work
\* is open at any time, and it belongs to the holder of the writer
\* connection; and every admission, when it returns, returns the outcome
\* and leaves the database that the whole call would on the database
\* committed just before, so any set of concurrent admissions ends as the
\* same admissions run one after another in the order of their returns.
C12_Serialized ==
    /\ [](/\ Cardinality(InUnitOfWork) <= 1
          /\ \A p \in InUnitOfWork : writer = p)
    /\ [][\A p \in Procs :
            (adm[p] # Idle /\ adm'[p] = Idle) =>
                /\ res'[p] = CreateTransactionResult(db, adm[p].t).err
                /\ db' = CreateTransactionResult(db, adm[p].t).db]_vars

\* Two admissions overlap: one is inside its unit of work, past its entry
\* inserts, while the other has been submitted and waits for the writer,
\* and an earlier admission is already committed.
C12_Witness ==
    /\ adm[1].pc = "check"
    /\ adm[2].pc = "begin"
    /\ writer = 1
    /\ db.transactions # <<>>

(***************************************************************************)
(* SpecSettings: one goroutine moves money between ~settlement and ~tax    *)
(* statement by statement while settings of their codes are upserted and   *)
(* deleted.                                                                *)
(***************************************************************************)
NextSettings ==
    \/ \E t \in Transfers : Submit(1, t)
    \/ BeginTx(1)
    \/ Statement(1)
    \/ Commit(1)
    \/ \E x \in SettingInputs(LedgerCodes) : UpsertSetting(x[1], x[2], x[3])
    \/ \E c \in LedgerCodes, n \in {SettingBlockInverted, SettingEntryDirection} :
          DeleteSetting(c, n)

SpecSettings == Init /\ [][NextSettings]_vars

\* The settings the rows of coa_settings put in force for a code: a
\* BLOCK_NORMAL_INVERTED row of "1", an ENTRY_DIRECTION row, the defaults
\* (off, BOTH) where there is no row.
InForce(d, code) ==
    [Code |-> code,
     BlockInverted |-> \E k \in DOMAIN d.settings :
                          k = <<code, SettingBlockInverted>> /\ d.settings[k] = "1",
     EntryDirection |-> IF \E k \in DOMAIN d.settings : k = <<code, SettingEntryDirection>>
                        THEN d.settings[<<code, SettingEntryDirection>>]
                        ELSE DirectionBoth]

\* C16: upserting or deleting a setting changes no transaction, entry or
\* balance, and touches no stored transaction or call; and an admission
\* applies the settings that are committed when it runs: the value a
\* setting change committed is the one the next admission works with.
C16_SettingsActOnNextAdmission ==
    /\ [][db'.settings # db.settings =>
            /\ db'.transactions = db.transactions
            /\ db'.entries = db.entries
            /\ db'.accounts = db.accounts
            /\ \A a \in DOMAIN db.accounts : AccountBalance(db', a) = AccountBalance(db, a)
            /\ \A id \in DOMAIN db.transactions : GetTransaction(db', id) = GetTransaction(db, id)
            /\ adm' = adm /\ res' = res]_vars
    /\ [](\A p \in Procs :
            adm[p].pc \in {"entries", "check", "finalize", "commit"} =>
                \A c \in DOMAIN adm[p].codeSettingsCache :
                    adm[p].codeSettingsCache[c] = InForce(db, c))

\* ~settlement is overdrawn by a committed transaction, BlockInverted was
\* switched on for its code afterwards, and the next admission has loaded it.
C16_Witness ==
    /\ FinalizedBalance(db, SETTLEMENT) < 0
    /\ InForce(db, 1098).BlockInverted
    /\ adm[1].pc = "check"
    /\ adm[1].codeSettingsCache[1098].BlockInverted

(***************************************************************************)
(* SpecAccounts: whole admissions over ~settlement and the customer        *)
(* account E; clients create and delete E, and delete and re-create        *)
(* ~settlement.                                                            *)
(***************************************************************************)
CustomerLedger == {SETTLEMENT, E}

NextAccounts ==
    \/ \E t \in TxnInputs(FreshIDs(MaxTxns), CustomerLedger) : CreateTransaction(t)
    \/ \E a \in AccountInputs : CreateAccount(a)
    \/ \E id \in CustomerLedger : DeleteAccountCheck(id)
    \/ DeleteAccountExec

SpecAccounts == Init /\ [][NextAccounts]_vars

\* C8: every stored entry has the currency of the account it references,
\* unless the currency of that account is the wildcard "*".
C8_EntryCurrencyMatches ==
    \A e \in Range(db.entries) :
        /\ e.account_id \in DOMAIN db.accounts
        /\ \/ db.accounts[e.account_id].currency = "*"
           \/ e.currency = db.accounts[e.account_id].currency

\* E is a EUR account with a EUR entry, and a USD posting to it is turned down.
C8_Witness ==
    /\ E \in DOMAIN db.accounts
    /\ db.accounts[E].currency = "EUR"
    /\ \E e \in Range(db.entries) : e.account_id = E /\ e.currency = "EUR"
    /\ CreateTransactionResult(db,
          [id |-> NewID, description |-> "d",
           entries |-> <<[account_id |-> E, amount |-> 1, currency |-> "USD"],
                         [account_id |-> SETTLEMENT, amount |-> -1, currency |-> "USD"]>>]).err
          = "insert entry"

\* C17: in every reachable state the only account with the wildcard
\* currency "*" is ~fx, and every other account has a supported currency:
\* CreateAccount turns down any other account whose currency is "*" or
\* is not supported.
C17_WildcardOnlyOnFX ==
    \A id \in DOMAIN db.accounts :
        /\ db.accounts[id].currency = "*" => id = FX
        /\ id # FX => ValidCurrency(db.accounts[id].currency)

(***************************************************************************)
(* SpecChart: clients create accounts of every shape under the ids E and   *)
(* ~settlement, and delete them.                                           *)
(***************************************************************************)
NextChart ==
    \/ \E a \in ChartInputs : CreateAccount(a)
    \/ \E id \in CustomerLedger : DeleteAccountCheck(id)
    \/ DeleteAccountExec

SpecChart == Init /\ [][NextChart]_vars

\* C18: every account in the store has a code between 1000 and 5999 whose
\* thousands digit gives its category: CreateAccount turns down every
\* account, system or not, whose category does not match its code.
C18_CodeGivesCategory ==
    \A id \in DOMAIN db.accounts :
        /\ db.accounts[id].code >= 1000
        /\ db.accounts[id].code <= 5999
        /\ db.accounts[id].category = CategoryForCode(db.accounts[id].code)

\* C19: every account in the store has is_system = 1 exactly when its id
\* begins with "~": CreateAccount turns down, and stores nothing of, a
\* system account without the prefix and a non-system account with it.
C19_SystemIffTilde ==
    /\ \A id \in DOMAIN db.accounts :
          db.accounts[id].is_system = 1 <=> HasPrefix(id, "~")
    /\ \A a \in ChartInputs :
          /\ (a.IsSystem /\ ~HasPrefix(a.ID, "~")) =>
                CreateAccountResult(db, a) = [err |-> "ErrSystemAccountPrefix", db |-> db]
          /\ (~a.IsSystem /\ HasPrefix(a.ID, "~")) =>
                CreateAccountResult(db, a) = [err |-> "ErrNonSystemAccountTilde", db |-> db]

\* E is stored as a non-system account, and ~settlement, deleted, has been
\* created again by a client as a system account.
C19_Witness ==
    /\ E \in DOMAIN db.accounts
    /\ db.accounts[E].is_system = 0
    /\ SETTLEMENT \in DOMAIN db.accounts
    /\ db.accounts[SETTLEMENT] # SeedAccounts[SETTLEMENT]
    /\ db.accounts[SETTLEMENT].is_system = 1

\* C20: CreateAccount with an id that is already in the store fails with
\* ErrDuplicateAccount, which the boundary maps to status 409, and leaves
\* the stored account as it was.
C20_DuplicateIsConflict ==
    \A a \in ChartInputs :
        (AccountValidate(a) = "ok" /\ a.ID \in DOMAIN db.accounts) =>
            /\ CreateAccountResult(db, a).err = "ErrDuplicateAccount"
            /\ mapError(CreateAccountResult(db, a).err) = 409
            /\ CreateAccountResult(db, a).db = db

(***************************************************************************)
(* SpecDelete: one goroutine admits transactions over ~settlement and E    *)
(* statement by statement while clients create and delete those accounts;  *)
(* the two halves of DeleteAccount interleave with the admission.          *)
(***************************************************************************)
NextDelete ==
    \/ \E t \in TxnInputs(FreshIDs(MaxTxns), CustomerLedger) : Submit(1, t)
    \/ BeginTx(1)
    \/ Statement(1)
    \/ Commit(1)
    \/ \E a \in AccountInputs : CreateAccount(a)
    \/ \E id \in CustomerLedger : DeleteAccountCheck(id)
    \/ DeleteAccountExec

SpecDelete == Init /\ [][NextDelete]_vars

\* C15: DeleteAccount removes an account only if no entry references it,
\* so in every reachable state, whatever the interleaving of DeleteAccount
\* with an admission that posts to the same account, every persisted entry
\* references an account that exists.
C15_EntriesKeepTheirAccount ==
    /\ [](\A e \in Range(db.entries) : e.account_id \in DOMAIN db.accounts)
    /\ [][\A id \in DOMAIN db.accounts \ DOMAIN db'.accounts :
            Len(EntriesOfAccount(db, id)) = 0]_vars

\* DeleteAccount has counted no entries on ~settlement and has not yet run
\* its DELETE; meanwhile an admission has committed entries on ~settlement.
C15_Witness ==
    /\ del # Nil
    /\ del = SETTLEMENT
    /\ Len(EntriesOfAccount(db, SETTLEMENT)) > 0
    /\ writer = 0

(***************************************************************************)
(* SpecRaw: SQL statements run against the transactions and entries tables *)
(* directly, with nothing but the schema and the five triggers of          *)
(* migration v1 between them and the data.  A statement that fails leaves  *)
(* the database as it was.                                                 *)
(***************************************************************************)
RawIDs == 1..MaxTxns
MaxRows == MaxEntries + 1          \* entry rows ever inserted
RawAccounts == {SETTLEMENT, FX}

RawInsertTransaction(id, finalized) ==
    /\ db' = InsertTransactionRow(db, id, "d", finalized).db
    /\ UNCHANGED <<writer, adm, res, del>>

RawUpdateFinalized(id, v) ==
    /\ db' = UpdateFinalized(db, id, v).db
    /\ UNCHANGED <<writer, adm, res, del>>

RawDeleteTransaction(id) ==
    /\ db' = DeleteTransaction(db, id).db
    /\ UNCHANGED <<writer, adm, res, del>>

RawInsertEntry(tid, e) ==
    /\ db.seq < MaxRows
    /\ db' = InsertEntry(db, tid, e.account_id, e.amount, e.currency).db
    /\ UNCHANGED <<writer, adm, res, del>>

RawUpdateEntry(i, col, val) ==
    /\ db' = UpdateEntry(db, i, col, val).db
    /\ UNCHANGED <<writer, adm, res, del>>

RawDeleteEntry(i) ==
    /\ db' = DeleteEntry(db, i).db
    /\ UNCHANGED <<writer, adm, res, del>>

NextRaw ==
    \/ \E id \in RawIDs, f \in {0, 1} : RawInsertTransaction(id, f)
    \/ \E id \in RawIDs, v \in {0, 1} : RawUpdateFinalized(id, v)
    \/ \E id \in RawIDs : RawDeleteTransaction(id)
    \/ \E tid \in RawIDs, e \in EntryInputs(RawAccounts) : RawInsertEntry(tid, e)
    \/ \E i \in DOMAIN db.entries, tid \in RawIDs : RawUpdateEntry(i, "transaction_id", tid)
    \/ \E i \in DOMAIN db.entries, x \in Amounts : RawUpdateEntry(i, "amount", x)
    \/ \E i \in DOMAIN db.entries, c \in Currencies : RawUpdateEntry(i, "currency", c)
    \/ \E i \in DOMAIN db.entries, a \in RawAccounts : RawUpdateEntry(i, "account_id", a)
    \/ \E i \in DOMAIN db.entries : RawDeleteEntry(i)

SpecRaw == Init /\ [][NextRaw]_vars

\* C3: once a transaction is finalized no entry of it can be inserted,
\* updated or deleted: whatever statement runs, the store rejects it or
\* leaves the entries of every finalized transaction as they were.
C3_FinalizedEntriesUnchanged ==
    [][\A id \in DOMAIN db.transactions :
          IsFinalized(db, id) => EntriesOfTxn(db', id) = EntriesOfTxn(db, id)]_vars

\* C9: the storage-level rules alone keep the state valid against raw
\* inserts, updates and deletes on transactions and entries: every
\* finalized transaction balances per currency, every entry has the
\* currency of its account unless that currency is "*", and no statement
\* changes the entries of a finalized transaction.
C9_StorageRulesSuffice ==
    /\ [](\A id \in DOMAIN db.transactions :
            db.transactions[id].finalized = 1 =>
                \A c \in Currencies : BalancedIn(db, id, c))
    /\ [](\A e \in Range(db.entries) :
            \/ db.accounts[e.account_id].currency = "*"
            \/ e.currency = db.accounts[e.account_id].currency)
    /\ [][\A id \in DOMAIN db.transactions :
            IsFinalized(db, id) =>
                Range(EntriesOfTxn(db', id)) = Range(EntriesOfTxn(db, id))]_vars

(***************************************************************************)
(* Amounts as text: ledger.ToMinorUnits and ledger.FormatAmount.  A string *)
(* is a sequence of one-character strings.  int64 is scaled to IntBits     *)
(* bits of two's complement, so that the smallest amount, like -2^63, ends *)
(* in the digits 08 and has no positive counterpart.                       *)
(***************************************************************************)
MaxWhole == 2     \* digits before the decimal point of a submitted string
MaxFrac == 3      \* digits after the decimal point of a submitted string
MaxMinor == 150   \* amounts formatted range over -MaxMinor..MaxMinor and the extremes

IntBits == 24
MinInt == -(2^(IntBits - 1))
MaxInt == 2^(IntBits - 1) - 1

\* int64 arithmetic: the result modulo 2^IntBits, in MinInt..MaxInt.
Wrap(x) == ((x - MinInt) % 2^IntBits) + MinInt

\* Go's / and % on integers: the quotient truncates toward zero and the
\* remainder has the sign of the dividend.
Quo(a, b) == IF a >= 0 THEN a \div b ELSE -((-a) \div b)
Rem(a, b) == a - b * Quo(a, b)

\* Exponent of ledger.Currencies, for the currencies the model formats.
Exponent == [c \in {"USD", "EUR", "JPY"} |-> IF c = "JPY" THEN 0 ELSE 2]

DigitSeq == <<"0", "1", "2", "3", "4", "5", "6", "7", "8", "9">>
DigitVal(c) == (CHOOSE i \in 1..10 : DigitSeq[i] = c) - 1

RECURSIVE FormatNat(_)
FormatNat(n) ==
    IF n < 10 THEN <<DigitSeq[n + 1]>>
    ELSE FormatNat(n \div 10) \o <<DigitSeq[(n % 10) + 1]>>

\* fmt.Sprintf("%d", n)
FormatInt(n) == IF n < 0 THEN <<"-">> \o FormatNat(-n) ELSE FormatNat(n)

\* fmt.Sprintf("%0<width>d", n): zeros go between the sign and the digits,
\* and the sign counts towards the width.
FormatIntPadded(n, width) ==
    LET digits == FormatNat(IF n < 0 THEN -n ELSE n)
        sign == IF n < 0 THEN <<"-">> ELSE <<>>
        fill == width - Len(sign) - Len(digits)
    IN  sign \o [i \in 1..(IF fill > 0 THEN fill ELSE 0) |-> "0"] \o digits

RECURSIVE ParseUint(_)
\* The value of a run of digits, saturating just above the int64 range (the
\* cutoff of strconv).
ParseUint(s) ==
    IF s = <<>> THEN 0
    ELSE LET v == 10 * ParseUint(SubSeq(s, 1, Len(s) - 1)) + DigitVal(s[Len(s)])
         IN  IF v > MaxInt + 2 THEN MaxInt + 2 ELSE v

\* strconv.ParseInt(s, 10, 64): an optional sign, then one or more digits;
\* ok = FALSE for a syntax error or a value out of range.
ParseInt(s) ==
    LET signed == Len(s) >= 1 /\ s[1] \in {"+", "-"}
        neg == Len(s) >= 1 /\ s[1] = "-"
        body == IF signed THEN Tail(s) ELSE s
    IN  IF body = <<>> \/ \E i \in DOMAIN body : body[i] \notin Digits
        THEN [ok |-> FALSE, v |-> 0]
        ELSE LET un == ParseUint(body)
             IN  IF neg
                 THEN IF un > MaxInt + 1 THEN [ok |-> FALSE, v |-> MinInt]
                      ELSE [ok |-> TRUE, v |-> -un]
                 ELSE IF un > MaxInt THEN [ok |-> FALSE, v |-> MaxInt]
                      ELSE [ok |-> TRUE, v |-> un]

RECURSIVE TrimSpace(_)
TrimSpace(s) ==
    IF s = <<>> THEN s
    ELSE IF s[1] = " " THEN TrimSpace(Tail(s))
    ELSE IF s[Len(s)] = " " THEN TrimSpace(SubSeq(s, 1, Len(s) - 1))
    ELSE s

\* strings.SplitN(s, ".", 2): the text before the first point and the text
\* after it; one part when there is no point.
SplitPoint(s) ==
    IF \E i \in DOMAIN s : s[i] = "."
    THEN LET k == CHOOSE i \in DOMAIN s : s[i] = "." /\ \A j \in 1..(i - 1) : s[j] # "."
         IN  <<SubSeq(s, 1, k - 1), SubSeq(s, k + 1, Len(s))>>
    ELSE <<s>>

\* ledger.ToMinorUnits: the decimal string as minor units of the currency,
\* the fraction padded or truncated to the exponent.
ToMinorUnits(amount, currency) ==
    IF currency \notin DOMAIN Exponent THEN [err |-> "ErrInvalidCurrency", v |-> 0]
    ELSE
    LET exp == Exponent[currency]
        trimmed == TrimSpace(amount)
        negative == HasPrefix(trimmed, "-")
        unsigned == IF negative \/ HasPrefix(trimmed, "+") THEN Tail(trimmed) ELSE trimmed
        parts == SplitPoint(unsigned)
        fracPart == IF Len(parts) = 2 THEN parts[2] ELSE <<>>
        whole == ParseInt(parts[1])
        multiplier == 10^exp
        padded == fracPart \o [i \in 1..(IF Len(fracPart) < exp THEN exp - Len(fracPart) ELSE 0) |-> "0"]
        frac == ParseInt(SubSeq(padded, 1, exp))
        result == IF exp > 0 /\ fracPart # <<>>
                  THEN Wrap(Wrap(whole.v * multiplier) + frac.v)
                  ELSE Wrap(whole.v * multiplier)
    IN  IF ~whole.ok THEN [err |-> "invalid amount", v |-> 0]
        ELSE IF exp > 0 /\ fracPart # <<>> /\ ~frac.ok
        THEN [err |-> "invalid fractional amount", v |-> 0]
        ELSE [err |-> "ok", v |-> IF negative THEN Wrap(-result) ELSE result]

\* ledger.FormatAmount: minor units as a display string.
FormatAmount(amount, currency) ==
    IF currency \notin DOMAIN Exponent
    THEN FormatInt(amount) \o <<" ">> \o <<currency>>
    ELSE IF Exponent[currency] = 0 THEN FormatInt(amount)
    ELSE LET negative == amount < 0
             abs == IF negative THEN Wrap(-amount) ELSE amount
             multiplier == 10^Exponent[currency]
             whole == Quo(abs, multiplier)
             frac == Rem(abs, multiplier)
         IN  (IF negative THEN <<"-">> ELSE <<>>)
                 \o FormatInt(whole) \o <<".">> \o FormatIntPadded(frac, Exponent[currency])

(***************************************************************************)
(* SpecMoney: goroutines convert amounts between text and minor units.     *)
(* adm[p] holds the call p made last and what it returned.                 *)
(***************************************************************************)
SampleDigits == {"0", "5", "9"}
DigitStrings(lo, hi) == UNION {[1..n -> SampleDigits] : n \in lo..hi}

\* sign, one or more digits, and optionally a point and one or more digits
DecimalStrings ==
    {sign \o w \o f :
        sign \in {<<>>, <<"+">>, <<"-">>},
        w \in DigitStrings(1, MaxWhole),
        f \in {<<>>} \cup {<<".">> \o d : d \in DigitStrings(1, MaxFrac)}}

MinorAmounts == ((-MaxMinor)..MaxMinor) \cup {MinInt, MinInt + 1, MaxInt}
MoneyCurrencies == {"USD", "JPY"}

CallToMinorUnits(p, s, c) ==
    /\ adm[p] = Idle
    /\ adm' = [adm EXCEPT ![p] = [pc |-> "ToMinorUnits", s |-> s, c |-> c,
                                  out |-> ToMinorUnits(s, c)]]
    /\ UNCHANGED <<db, writer, res, del>>

CallFormatAmount(p, n, c) ==
    /\ adm[p] = Idle
    /\ adm' = [adm EXCEPT ![p] = [pc |-> "FormatAmount", n |-> n, c |-> c,
                                  out |-> FormatAmount(n, c)]]
    /\ UNCHANGED <<db, writer, res, del>>

\* The caller has taken the result; p is free for its next call.
ReturnMoney(p) ==
    /\ adm[p].pc \in {"ToMinorUnits", "FormatAmount"}
    /\ adm' = [adm EXCEPT ![p] = Idle]
    /\ UNCHANGED <<db, writer, res, del>>

NextMoney ==
    \/ \E s \in DecimalStrings, c \in MoneyCurrencies : CallToMinorUnits(1, s, c)
    \/ \E n \in MinorAmounts, c \in MoneyCurrencies : CallFormatAmount(1, n, c)
    \/ ReturnMoney(1)

SpecMoney == Init /\ [][NextMoney]_vars

RECURSIVE StripZeros(_)
StripZeros(s) == IF Len(s) > 1 /\ s[1] = "0" THEN StripZeros(Tail(s)) ELSE s

\* The canonical form of a well-formed decimal string for exponent exp: the
\* integer part without leading zeros, exactly exp fractional digits (the
\* rest cut off), no point when exp = 0, and "-" when the string is negative
\* and a digit that is kept is not zero.
Canonical(s, exp) ==
    LET negative == HasPrefix(s, "-")
        unsigned == IF s[1] \in {"+", "-"} THEN Tail(s) ELSE s
        parts == SplitPoint(unsigned)
        int == StripZeros(parts[1])
        given == IF Len(parts) = 2 THEN parts[2] ELSE <<>>
        frac == [i \in 1..exp |-> IF i <= Len(given) THEN given[i] ELSE "0"]
        kept == int \o frac
    IN  (IF negative /\ \E i \in DOMAIN kept : kept[i] # "0" THEN <<"-">> ELSE <<>>)
            \o int \o (IF exp > 0 THEN <<".">> \o frac ELSE <<>>)

\* C23 (first half): formatting what ToMinorUnits returned for a well-formed
\* decimal string gives the canonical form of the string for the exponent
\* of the currency.
C23_FormatOfParseIsCanonical ==
    adm[1].pc = "ToMinorUnits" =>
        /\ adm[1].out.err = "ok"
        /\ FormatAmount(adm[1].out.v, adm[1].c) = Canonical(adm[1].s, Exponent[adm[1].c])

\* C23: in every supported currency, formatting the minor units of a
\* well-formed decimal string gives its canonical form, and converting the
\* formatted text of any amount back gives the amount.
C23_RoundTrip ==
    /\ C23_FormatOfParseIsCanonical
    /\ adm[1].pc = "FormatAmount" =>
           ToMinorUnits(adm[1].out, adm[1].c) = [err |-> "ok", v |-> adm[1].n]

(***************************************************************************)
(* Regulatory ratios.  The record holds the four absolute values and the   *)
(* three percentages.  A percentage float64(n) / float64(d) * 100 is kept  *)
(* as the fraction n/d in lowest terms: two of them are the same float64   *)
(* exactly when the fractions are the same, for the values of the model.   *)
(***************************************************************************)
RECURSIVE GCD(_, _)
GCD(a, b) == IF b = 0 THEN a ELSE GCD(b, a % b)

Abs(x) == IF x < 0 THEN -x ELSE x

\* float64(n) / float64(d) * 100 for d > 0.
Percent(n, d) == <<Quo(n, GCD(Abs(n), d)), Quo(d, GCD(Abs(n), d))>>

\* The float64 zero value.
ZeroPercent == <<0, 1>>

\* COALESCE(SUM(e.amount), 0) of one GROUP BY a.category, a.code row: the
\* LEFT JOIN on transactions filters nothing.
GroupBalance(d, g) ==
    SumAmounts(SelectSeq(d.entries,
        LAMBDA e : <<d.accounts[e.account_id].category, d.accounts[e.account_id].code>> = g))

RECURSIVE SumGroups(_, _)
SumGroups(d, gs) ==
    IF gs = {} THEN 0
    ELSE LET g == CHOOSE x \in gs : TRUE
         IN  GroupBalance(d, g) + SumGroups(d, gs \ {g})

\* Store.RegulatoryRatios: the rows with a balance, bucketed by category;
\* reserves are the assets rows of code 1060, customer deposits the
\* liabilities rows of code 2020.
RegulatoryRatios(d) ==
    LET groups == {<<d.accounts[id].category, d.accounts[id].code>> : id \in DOMAIN d.accounts}
        rows == {g \in groups : GroupBalance(d, g) # 0}
        TotalAssets == SumGroups(d, {g \in rows : g[1] = CategoryAssets})
        Reserves == SumGroups(d, {g \in rows : g[1] = CategoryAssets /\ g[2] = 1060})
        Equity == -SumGroups(d, {g \in rows : g[1] = CategoryEquity})
        CustomerDeposits ==
            -SumGroups(d, {g \in rows : g[1] = CategoryLiabilities /\ g[2] = 2020})
    IN  [TotalAssets |-> TotalAssets,
         Reserves |-> Reserves,
         Equity |-> Equity,
         CustomerDeposits |-> CustomerDeposits,
         CapitalAdequacy |->
             IF TotalAssets > 0 THEN Percent(Equity, TotalAssets) ELSE ZeroPercent,
         LeverageRatio |->
             IF TotalAssets > 0 THEN Percent(Equity, TotalAssets) ELSE ZeroPercent,
         ReserveRatio |->
             IF CustomerDeposits > 0 THEN Percent(Reserves, CustomerDeposits)
             ELSE ZeroPercent]

RECURSIVE ProjectEntries(_, _, _)
\* The loop of ledger.ProjectRatios: the current values with each proposed
\* entry applied; an entry on an unknown account is skipped, and the
\* reserves test on code 1060 stands outside the switch on the category.
ProjectEntries(current, entries, accounts) ==
    IF entries = <<>> THEN current
    ELSE LET e == Head(entries)
         IN  IF e.account_id \notin DOMAIN accounts
             THEN ProjectEntries(current, Tail(entries), accounts)
             ELSE LET acct == accounts[e.account_id]
                      bucketed ==
                          IF acct.category = CategoryAssets
                          THEN [current EXCEPT !.TotalAssets = @ + e.amount]
                          ELSE IF acct.category = CategoryEquity
                          THEN [current EXCEPT !.Equity = @ + (-e.amount)]
                          ELSE IF acct.category = CategoryLiabilities /\ acct.code = 2020
                          THEN [current EXCEPT !.CustomerDeposits = @ + (-e.amount)]
                          ELSE current
                      projected ==
                          IF acct.code = 1060
                          THEN [bucketed EXCEPT !.Reserves = @ + e.amount]
                          ELSE bucketed
                  IN  ProjectEntries(projected, Tail(entries), accounts)

\* ledger.ProjectRatios: projected starts as a copy of current, the loop
\* moves the four values, and a percentage is assigned only when its
\* denominator is positive.
ProjectRatios(current, entries, accounts) ==
    LET projected == ProjectEntries(current, entries, accounts)
    IN  [projected EXCEPT
           !.CapitalAdequacy =
               IF projected.TotalAssets > 0
               THEN Percent(projected.Equity, projected.TotalAssets) ELSE @,
           !.LeverageRatio =
               IF projected.TotalAssets > 0
               THEN Percent(projected.Equity, projected.TotalAssets) ELSE @,
           !.ReserveRatio =
               IF projected.CustomerDeposits > 0
               THEN Percent(projected.Reserves, projected.CustomerDeposits) ELSE @]

(***************************************************************************)
(* SpecRatios: whole admissions over ~settlement, ~capital, the customer   *)
(* account E and the reserve account ~reserve, which clients create.       *)
(***************************************************************************)
RESERVE == <<"~", "r", "e", "s", "e", "r", "v", "e">>
RatioLedger == {SETTLEMENT, CAPITAL, E, RESERVE}

\* Accounts a client asks for: E as a customer deposit account or as a
\* reserve account at the central bank, and the system account ~reserve
\* with code 1060 under either category.
RatioAccountInputs ==
    [ID : {E}, Name : {"n"}, Code : {2020}, Category : {CategoryLiabilities},
     Currency : {"USD"}, IsSystem : {FALSE}]
    \cup [ID : {E}, Name : {"n"}, Code : {1060}, Category : {CategoryAssets},
          Currency : {"USD"}, IsSystem : {FALSE}]
    \cup [ID : {RESERVE}, Name : {"n"}, Code : {1060},
          Category : {CategoryAssets, CategoryLiabilities},
          Currency : {"USD"}, IsSystem : {TRUE}]

NextRatios ==
    \/ \E t \in TxnInputs(FreshIDs(MaxTxns), RatioLedger) : CreateTransaction(t)
    \/ \E a \in RatioAccountInputs : CreateAccount(a)

SpecRatios == Init /\ [][NextRatios]_vars

\* C24: in every ledger state, for every list of proposed entries that is
\* admitted, the total assets, equity, reserves and customer deposits that
\* ProjectRatios derives from the current ratios are those RegulatoryRatios
\* returns after the admission.
C24_ProjectionMatches ==
    \A t \in TxnInputs({NewID}, RatioLedger) :
        CreateTransactionResult(db, t).err = "ok" =>
            \A f \in {"TotalAssets", "Equity", "Reserves", "CustomerDeposits"} :
                ProjectRatios(RegulatoryRatios(db), t.entries, db.accounts)[f]
                    = RegulatoryRatios(CreateTransactionResult(db, t).db)[f]

\* C35: the three percentages ProjectRatios returns are those of the
\* projected values alone: capital adequacy and leverage are equity over
\* total assets, or zero when the projected total assets are not positive,
\* and the reserve ratio is reserves over customer deposits, or zero when
\* the projected customer deposits are not positive, whatever the current
\* percentages were.
C35_PercentagesFromProjectedBuckets ==
    \A t \in TxnInputs({NewID}, RatioLedger) :
        LET p == ProjectRatios(RegulatoryRatios(db), t.entries, db.accounts)
        IN  /\ p.CapitalAdequacy =
                  IF p.TotalAssets > 0 THEN Percent(p.Equity, p.TotalAssets) ELSE ZeroPercent
            /\ p.LeverageRatio =
                  IF p.TotalAssets > 0 THEN Percent(p.Equity, p.TotalAssets) ELSE ZeroPercent
            /\ p.ReserveRatio =
                  IF p.CustomerDeposits > 0 THEN Percent(p.Reserves, p.CustomerDeposits)
                  ELSE ZeroPercent

(***************************************************************************)
(* Open and migrate.  A database file that does not exist yet is a db      *)
(* whose tables are empty and whose schema_version holds no row: every     *)
(* CREATE ... IF NOT EXISTS of migrateV1 then yields the empty table.      *)
(***************************************************************************)
Closed == -1
BlankDB ==
    [accounts |-> <<>>, transactions |-> <<>>, entries |-> <<>>,
     settings |-> <<>>, seq |-> 0, schema_version |-> {}]

\* SELECT COALESCE(MAX(version), 0) FROM schema_version
SchemaVersion(d) ==
    IF d.schema_version = {} THEN 0
    ELSE CHOOSE v \in d.schema_version : \A x \in d.schema_version : x <= v

\* migrateV1: the statements, of which INSERT INTO schema_version fails on
\* the primary key when version 1 is recorded, then INSERT OR IGNORE of
\* each system account.
migrateV1(d) ==
    IF 1 \in d.schema_version THEN [err |-> "exec", db |-> d]
    ELSE [err |-> "ok",
          db |-> [d EXCEPT
                    !.schema_version = @ \cup {1},
                    !.accounts = [id \in DOMAIN d.accounts \cup DOMAIN SeedAccounts |->
                                    IF id \in DOMAIN d.accounts THEN d.accounts[id]
                                    ELSE SeedAccounts[id]]]]

\* migrate with the version test dropped: migrateV1 runs on every Open.
migrateUnversioned(d) ==
    IF migrateV1(d).err # "ok" THEN [err |-> "migration v1", db |-> d]
    ELSE [err |-> "ok", db |-> migrateV1(d).db]

\* Store.migrate: one unit of work; migrateV1 runs when the recorded
\* version is below 1, and a failure rolls everything back.
migrate(d) ==
    IF SchemaVersion(d) < 1
    THEN IF migrateV1(d).err # "ok" THEN [err |-> "migration v1", db |-> d]
         ELSE [err |-> "ok", db |-> migrateV1(d).db]
    ELSE [err |-> "ok", db |-> d]

\* store.Open: the two pools, then migrate.
Open(d) ==
    IF migrate(d).err # "ok" THEN [err |-> "migrate", db |-> migrate(d).db]
    ELSE migrate(d)

(***************************************************************************)
(* SpecOpen: a process opens the store on a file that does not exist yet,  *)
(* works on it (whole admissions over ~settlement and E, accounts created  *)
(* and deleted, settings of code 1098), closes it and opens it again.      *)
(***************************************************************************)
InitBlank ==
    /\ db = BlankDB
    /\ writer = Closed
    /\ adm = [p \in Procs |-> Idle]
    /\ res = [p \in Procs |-> ""]
    /\ del = Nil

OpenStore(p) ==
    /\ writer = Closed
    /\ db' = Open(db).db
    /\ res' = [res EXCEPT ![p] = Open(db).err]
    /\ writer' = IF Open(db).err = "ok" THEN 0 ELSE Closed
    /\ UNCHANGED <<adm, del>>

\* Store.Close; a DeleteAccount between its two halves ends with the process.
CloseStore ==
    /\ writer = 0
    /\ writer' = Closed
    /\ del' = Nil
    /\ UNCHANGED <<db, adm, res>>

NextOpen ==
    \/ OpenStore(1)
    \/ CloseStore
    \/ \E t \in TxnInputs(FreshIDs(MaxTxns), CustomerLedger) : CreateTransaction(t)
    \/ \E a \in AccountInputs : CreateAccount(a)
    \/ \E id \in CustomerLedger : writer = 0 /\ DeleteAccountCheck(id)
    \/ DeleteAccountExec
    \/ \E x \in SettingInputs({1098}) : UpsertSetting(x[1], x[2], x[3])

SpecOpen == InitBlank /\ [][NextOpen]_vars

\* C25 as stated: Open on an existing database succeeds, records version 1
\* once, leaves accounts, transactions, entries and settings as they are,
\* and after it the nine seeded system accounts exist, ~fx with currency
\* "*" and the others with USD.
C25_OpenIdempotent ==
    db.schema_version # {} =>
        /\ Open(db).err = "ok"
        /\ Open(db).db.schema_version = {1}
        /\ Open(db).db = db
        /\ \A id \in DOMAIN SeedAccounts :
              /\ id \in DOMAIN Open(db).db.accounts
              /\ Open(db).db.accounts[id].currency = (IF id = FX THEN "*" ELSE "USD")

\* C25 (amended): Open on a file that does not exist yet records version 1
\* and seeds the nine system accounts, ~fx with "*" and the others with
\* USD; Open on an existing database succeeds without running migrateV1
\* again and leaves accounts, transactions, entries, settings and the
\* recorded version as they are, so a seeded account a client has deleted
\* or replaced is not seeded again.
C25_ReopenChangesNothing ==
    /\ Open(BlankDB) = [err |-> "ok", db |-> EmptyDB]
    /\ \A id \in DOMAIN SeedAccounts :
          EmptyDB.accounts[id].currency = (IF id = FX THEN "*" ELSE "USD")
    /\ db.schema_version # {} =>
          /\ Open(db) = [err |-> "ok", db |-> db]
          /\ db.schema_version = {1}

\* The store is closed on a database that holds entries and a setting and
\* from which ~settlement has been deleted: the next Open is a re-open.
C25_Witness ==
    /\ writer = Closed
    /\ db.schema_version = {1}
    /\ db.entries # <<>>
    /\ DOMAIN db.settings # {}
    /\ SETTLEMENT \notin DOMAIN db.accounts

(***************************************************************************)
(* SpecAdmit: whole admissions over ~settlement, ~fx and the EUR customer  *)
(* account E, which a client creates, among them the four-entry exchange   *)
(* routed through ~fx, while settings of codes 1098 and 2020 change.       *)
(***************************************************************************)
AdmitLedger == {SETTLEMENT, FX, E}
AdmitCodes == {1098, 2020}

AdmitAccountInputs ==
    [ID : {E}, Name : {"n"}, Code : {2020}, Category : {CategoryLiabilities},
     Currency : {"EUR"}, IsSystem : {FALSE}]

\* USD leaves ~settlement for ~fx, EUR leaves ~fx for E (or the reverse).
FXTransactions(ids) ==
    {[id |-> i, description |-> "d",
      entries |-> <<[account_id |-> SETTLEMENT, amount |-> -x, currency |-> "USD"],
                    [account_id |-> FX, amount |-> x, currency |-> "USD"],
                    [account_id |-> FX, amount |-> -y, currency |-> "EUR"],
                    [account_id |-> E, amount |-> y, currency |-> "EUR"]>>] :
        i \in ids, x \in Amounts, y \in Amounts}

AdmitInputs(ids) == TxnInputs(ids, AdmitLedger) \cup FXTransactions(ids)

NextAdmit ==
    \/ \E t \in AdmitInputs(FreshIDs(MaxTxns)) : CreateTransaction(t)
    \/ \E a \in AdmitAccountInputs : CreateAccount(a)
    \/ \E x \in SettingInputs(AdmitCodes) : UpsertSetting(x[1], x[2], x[3])
    \/ \E c \in AdmitCodes, n \in {SettingBlockInverted, SettingEntryDirection} :
          DeleteSetting(c, n)

SpecAdmit == Init /\ [][NextAdmit]_vars

\* The conditions under which a request is to be admitted to database d:
\* a description, two entries or more, every currency summing to zero,
\* every account there, every entry in the currency of its account unless
\* that is "*", every entry allowed by the direction of its code, and every
\* account of a BlockInverted code left on its normal side or at zero.
Admissible(d, t) ==
    /\ t.description # ""
    /\ Len(t.entries) >= 2
    /\ \A c \in {e.currency : e \in Range(t.entries)} :
          SumAmounts(SelectSeq(t.entries, LAMBDA e : e.currency = c)) = 0
    /\ \A e \in Range(t.entries) :
          /\ e.account_id \in DOMAIN d.accounts
          /\ ~CurrencyMismatch(d, e)
          /\ LET dir == InForce(d, d.accounts[e.account_id].code).EntryDirection
             IN  /\ dir = DirectionDebitOnly => e.amount >= 0
                 /\ dir = DirectionCreditOnly => e.amount <= 0
    /\ \A id \in AccountsOf(t) :
          (id \in DOMAIN d.accounts /\ InForce(d, d.accounts[id].code).BlockInverted) =>
              LET P == AccountBalance(d, id).balance + Posted(t, id)
              IN  IF IsDebitNormal(d.accounts[id].category) THEN P >= 0 ELSE P <= 0

\* C26 as stated: every request that meets the listed conditions is
\* admitted and stored finalized, whatever id it carries.
C26_ListedReasonsOnly ==
    \A t \in AdmitInputs(1..MaxTxns) :
        Admissible(db, t) =>
            /\ CreateTransactionResult(db, t).err = "ok"
            /\ Stored(CreateTransactionResult(db, t).db, t)

\* C26 (amended): every request that meets the listed conditions and whose
\* id is not the id of a stored transaction is admitted and stored
\* finalized with exactly its entries, the four-entry exchange through ~fx
\* included.
C26_ValidIsAdmitted ==
    \A t \in AdmitInputs({NewID}) :
        Admissible(db, t) =>
            /\ CreateTransactionResult(db, t).err = "ok"
            /\ Stored(CreateTransactionResult(db, t).db, t)

\* A four-entry exchange through ~fx is stored finalized while BlockInverted
\* is in force for code 1098 and a direction for code 2020, and another
\* exchange is admissible.
C26_Witness ==
    /\ \E id \in DOMAIN db.transactions :
          /\ IsFinalized(db, id)
          /\ Len(EntriesOfTxn(db, id)) = 4
          /\ \E e \in Range(EntriesOfTxn(db, id)) : e.account_id = FX /\ e.currency = "EUR"
    /\ InForce(db, 1098).BlockInverted
    /\ InForce(db, 2020).EntryDirection # DirectionBoth
    /\ \E t \in FXTransactions({NewID}) : Admissible(db, t)

(***************************************************************************)
(* SpecRawSettings: the statements of SpecRaw, run while BlockInverted and *)
(* DEBIT_ONLY are being set for code 1098, the code of ~settlement.        *)
(***************************************************************************)
NextRawSettings ==
    \/ NextRaw
    \/ UpsertSetting(1098, SettingBlockInverted, "1")
    \/ UpsertSetting(1098, SettingEntryDirection, DirectionDebitOnly)

SpecRawSettings == Init /\ [][NextRawSettings]_vars

\* C27: the store itself enforces the per-code constraints: no statement
\* finalizes a transaction one of whose entries goes against the
\* EntryDirection in force for the code of its account, or that leaves an
\* account of a BlockInverted code on the wrong side of zero.
C27_ConstraintsAtDatabaseLayer ==
    [][\A id \in DOMAIN db'.transactions :
          (~IsFinalized(db, id) /\ IsFinalized(db', id)) =>
              \A e \in Range(EntriesOfTxn(db', id)) :
                  LET acct == db'.accounts[e.account_id]
                      cs == InForce(db, acct.code)
                  IN  /\ cs.EntryDirection = DirectionDebitOnly => e.amount >= 0
                      /\ cs.EntryDirection = DirectionCreditOnly => e.amount <= 0
                      /\ cs.BlockInverted =>
                            ~Inverted(acct.category, FinalizedBalance(db', e.account_id))]_vars

(***************************************************************************)
(* The per-code checks of an admission, under Spec.                        *)
(***************************************************************************)
\* Requests of two entries in which an entry may have amount zero.
ZeroEntryInputs(ids) ==
    [id : ids, description : {"d"},
     entries : [1..2 -> [account_id : {SETTLEMENT, TAX}, amount : {-1, 0, 1},
                         currency : {"USD"}]]]

\* The request reaches the entry loop and no INSERT of it fails: it passes
\* Validate, its accounts exist and its entries have their currencies.
ReachesChecks(d, t) ==
    /\ Validate(t) = "ok"
    /\ \A e \in Range(t.entries) : e.account_id \in DOMAIN d.accounts /\ ~CurrencyMismatch(d, e)

\* Some entry of t goes against the direction in force for its code.
AgainstDirection(d, t) ==
    \E e \in Range(t.entries) :
        LET dir == InForce(d, d.accounts[e.account_id].code).EntryDirection
        IN  \/ dir = DirectionDebitOnly /\ e.amount < 0
            \/ dir = DirectionCreditOnly /\ e.amount > 0

\* Some account of t, of a BlockInverted code, would be left with P on the
\* wrong side of zero: P < 0 if debit-normal, P > 0 if credit-normal.
InvertsSomeAccount(d, t) ==
    \E id \in AccountsOf(t) :
        /\ InForce(d, d.accounts[id].code).BlockInverted
        /\ LET P == AccountBalance(d, id).balance + Posted(t, id)
           IN  IF d.accounts[id].category \in {CategoryAssets, CategoryExpenses}
               THEN P < 0 ELSE P > 0

\* C28: a request that gets as far as the inverted-balance check is turned
\* down with ErrInvertedBalance exactly when, for some account of it whose
\* code has BlockInverted, the finalized balance plus everything the
\* request posts to the account is below zero (debit-normal) or above zero
\* (credit-normal); a total of exactly zero is accepted, and the entries on
\* one account count by their sum.
C28_InvertedExactlyWhenProjected ==
    \A t \in TxnInputs({NewID}, LedgerAccounts) :
        LET err == CreateTransactionResult(db, t).err
        IN  /\ err = "ErrInvertedBalance" => (ReachesChecks(db, t) /\ InvertsSomeAccount(db, t))
            /\ (ReachesChecks(db, t) /\ ~AgainstDirection(db, t)) =>
                  (err = "ErrInvertedBalance" <=> InvertsSomeAccount(db, t))
            /\ (ReachesChecks(db, t) /\ ~AgainstDirection(db, t) /\ ~InvertsSomeAccount(db, t)) =>
                  err = "ok"

\* Under BlockInverted ~settlement holds +1: a credit of 1 to it (P = 0) is
\* accepted, and some other request is turned down for an inverted balance.
C28_Witness ==
    /\ InForce(db, 1098).BlockInverted
    /\ FinalizedBalance(db, SETTLEMENT) = 1
    /\ CreateTransactionResult(db,
          [id |-> NewID, description |-> "d",
           entries |-> <<[account_id |-> SETTLEMENT, amount |-> -1, currency |-> "USD"],
                         [account_id |-> FX, amount |-> 1, currency |-> "USD"]>>]).err = "ok"
    /\ \E t \in TxnInputs({NewID}, LedgerAccounts) :
          CreateTransactionResult(db, t).err = "ErrInvertedBalance"

\* C29: a request that reaches the entry loop is turned down with
\* ErrEntryDirectionViolation exactly when one of its entries is a credit
\* on a DEBIT_ONLY code or a debit on a CREDIT_ONLY code, whatever the
\* entries on the account add up to; an entry of amount zero passes under
\* every direction.
C29_DirectionPerEntry ==
    \A t \in TxnInputs({NewID}, LedgerAccounts) \cup ZeroEntryInputs({NewID}) :
        LET err == CreateTransactionResult(db, t).err
        IN  /\ err = "ErrEntryDirectionViolation" =>
                  (Validate(t) = "ok" /\ AgainstDirection(db, t))
            /\ ReachesChecks(db, t) =>
                  (err = "ErrEntryDirectionViolation" <=> AgainstDirection(db, t))

\* ~settlement is DEBIT_ONLY and has taken a debit: a credit and a debit of
\* 1 to it in one request are turned down although they add up to zero, and
\* a request of two zero entries on it passes.
C29_Witness ==
    /\ InForce(db, 1098).EntryDirection = DirectionDebitOnly
    /\ \E e \in Range(EntriesOfAccount(db, SETTLEMENT)) : e.amount > 0
    /\ CreateTransactionResult(db,
          [id |-> NewID, description |-> "d",
           entries |-> <<[account_id |-> SETTLEMENT, amount |-> 1, currency |-> "USD"],
                         [account_id |-> SETTLEMENT, amount |-> -1, currency |-> "USD"]>>]).err
          = "ErrEntryDirectionViolation"
    /\ CreateTransactionResult(db,
          [id |-> NewID, description |-> "d",
           entries |-> <<[account_id |-> SETTLEMENT, amount |-> 0, currency |-> "USD"],
                         [account_id |-> SETTLEMENT, amount |-> 0, currency |-> "USD"]>>]).err
          = "ok"

\* C30 (under SpecSteps, where E is not in the store): a request that passes
\* Validate and names an account that is not in
\* the store is turned down with ErrAccountNotFound, which the boundary
\* maps to status 404, and leaves the database as it was.
C30_MissingAccountIsNotFound ==
    \A t \in TxnInputs({NewID}, StepAccounts) :
        (Validate(t) = "ok" /\ \E e \in Range(t.entries) : e.account_id \notin DOMAIN db.accounts) =>
            /\ CreateTransactionResult(db, t).err = "ErrAccountNotFound"
            /\ mapError(CreateTransactionResult(db, t).err) = 404
            /\ CreateTransactionResult(db, t).db = db

(***************************************************************************)
(* SpecValidate: the goroutines of Procs submit transfers between          *)
(* ~settlement and ~tax and requests that Validate turns down, statement   *)
(* by statement.                                                           *)
(***************************************************************************)
ValidationErrors == {"ErrEmptyDescription", "ErrTooFewEntries", "ErrUnbalancedTransaction"}

\* A request without description, one with a single entry and one whose
\* USD entries do not sum to zero.
InvalidRequests ==
    {[id |-> NewID, description |-> "", entries |-> <<>>],
     [id |-> NewID, description |-> "d",
      entries |-> <<[account_id |-> SETTLEMENT, amount |-> 1, currency |-> "USD"]>>],
     [id |-> NewID, description |-> "d",
      entries |-> <<[account_id |-> SETTLEMENT, amount |-> 1, currency |-> "USD"],
                    [account_id |-> TAX, amount |-> 1, currency |-> "USD"]>>]}

NextValidate ==
    \/ \E p \in Procs, t \in Transfers \cup InvalidRequests : Submit(p, t)
    \/ \E p \in Procs : BeginTx(p)
    \/ \E p \in Procs : Statement(p)
    \/ \E p \in Procs : Commit(p)

SpecValidate == Init /\ [][NextValidate]_vars

\* C31: a request that Validate turns down is answered whoever holds the
\* writer connection (the step that rejects it is enabled in every state in
\* which its goroutine is idle), and the step that answers it takes no
\* connection and touches neither the database nor any other call.
C31_ValidationBeforeWriter ==
    /\ [](\A p \in Procs, t \in InvalidRequests :
            /\ Validate(t) \in ValidationErrors
            /\ adm[p] = Idle => ENABLED Submit(p, t))
    /\ [][\A p \in Procs :
            (res'[p] \in ValidationErrors /\ res'[p] # res[p]) =>
                /\ adm[p] = Idle
                /\ writer' = writer
                /\ db' = db
                /\ adm' = adm]_vars

\* Goroutine 1 is inside its unit of work, holding the writer connection,
\* and goroutine 2 has had a request turned down by Validate.
C31_Witness ==
    /\ writer = 1
    /\ adm[1].pc \in TxPCs
    /\ adm[2] = Idle
    /\ res[2] \in ValidationErrors

(***************************************************************************)
(* The order of the rejections, under SpecSteps.                           *)
(***************************************************************************)
\* The rule an error of CreateTransaction stands for.
ErrorClass(err) ==
    IF err \in ValidationErrors THEN "validation"
    ELSE IF err = "lookup account" THEN "missing account"
    ELSE IF err = "ErrEntryDirectionViolation" THEN "direction"
    ELSE IF err = "insert entry" THEN "currency"
    ELSE IF err = "ErrInvertedBalance" THEN "inverted"
    ELSE IF err = "finalize transaction" THEN "trigger"
    ELSE IF err = "ok" THEN "none"
    ELSE "other"

EntryAgainstDirection(d, e) ==
    LET dir == InForce(d, d.accounts[e.account_id].code).EntryDirection
    IN  \/ dir = DirectionDebitOnly /\ e.amount < 0
        \/ dir = DirectionCreditOnly /\ e.amount > 0

\* The first rule, in the order of the protocol, that request t breaks on
\* database d: validation, then a missing account, then the first entry
\* that goes against its direction or has the wrong currency, then an
\* inverted balance.
FirstViolation(d, t) ==
    IF \/ t.description = ""
       \/ Len(t.entries) < 2
       \/ \E c \in Currencies :
             SumAmounts(SelectSeq(t.entries, LAMBDA e : e.currency = c)) # 0
    THEN "validation"
    ELSE IF \E e \in Range(t.entries) : e.account_id \notin DOMAIN d.accounts
    THEN "missing account"
    ELSE IF \E i \in DOMAIN t.entries :
               EntryAgainstDirection(d, t.entries[i]) \/ CurrencyMismatch(d, t.entries[i])
    THEN LET k == CHOOSE i \in DOMAIN t.entries :
                    /\ EntryAgainstDirection(d, t.entries[i]) \/ CurrencyMismatch(d, t.entries[i])
                    /\ \A j \in 1..(i - 1) :
                          ~(EntryAgainstDirection(d, t.entries[j]) \/ CurrencyMismatch(d, t.entries[j]))
         IN  IF EntryAgainstDirection(d, t.entries[k]) THEN "direction" ELSE "currency"
    ELSE IF InvertsSomeAccount(d, t) THEN "inverted"
    ELSE "none"

GetCodeSettings(d, code) ==
    LET rows == {k \in DOMAIN d.settings : k[1] = code}
    IN  [Code |-> code,
         BlockInverted |->
            IF <<code, SettingBlockInverted>> \in rows
            THEN d.settings[<<code, SettingBlockInverted>>] = "1"
            ELSE DefaultCodeSettings(code).BlockInverted,
         EntryDirection |->
            IF <<code, SettingEntryDirection>> \in rows
            THEN d.settings[<<code, SettingEntryDirection>>]
            ELSE DefaultCodeSettings(code).EntryDirection]

AllSettingInputs(codes) ==
    (codes \X {SettingBlockInverted} \X {"0", "1"})
    \cup (codes \X {SettingEntryDirection}
                \X {DirectionBoth, DirectionDebitOnly, DirectionCreditOnly})

NextCodeSettings ==
    \/ \E x \in AllSettingInputs(LedgerCodes) : UpsertSetting(x[1], x[2], x[3])
    \/ \E c \in LedgerCodes, n \in {SettingBlockInverted, SettingEntryDirection} :
          DeleteSetting(c, n)

SpecCodeSettings == Init /\ [][NextCodeSettings]_vars

\* What GetCodeSettings shows for setting n of a code.
Shown(cs, n) ==
    IF n = SettingBlockInverted THEN (IF cs.BlockInverted THEN "1" ELSE "0")
    ELSE cs.EntryDirection

OtherSetting(n) ==
    IF n = SettingBlockInverted THEN SettingEntryDirection ELSE SettingBlockInverted

\* C33: a code without rows has BlockInverted = false and EntryDirection =
\* BOTH; after UpsertSetting(code, name, v) GetCodeSettings shows v for
\* that setting, whatever row was there before, and the table holds one
\* row for (code, name); after DeleteSetting(code, name) it shows the
\* default for that setting; and in both cases the other setting of the
\* code and the settings of every other code are as before.
C33_SettingsReadBack ==
    /\ [](\A c \in LedgerCodes :
            (\A k \in DOMAIN db.settings : k[1] # c) =>
                GetCodeSettings(db, c) =
                    [Code |-> c, BlockInverted |-> FALSE, EntryDirection |-> DirectionBoth])
    /\ [][\A x \in AllSettingInputs(LedgerCodes) :
            /\ UpsertSetting(x[1], x[2], x[3]) =>
                  /\ Shown(GetCodeSettings(db', x[1]), x[2]) = x[3]
                  /\ Cardinality({k \in DOMAIN db'.settings : k = <<x[1], x[2]>>}) = 1
                  /\ Shown(GetCodeSettings(db', x[1]), OtherSetting(x[2]))
                        = Shown(GetCodeSettings(db, x[1]), OtherSetting(x[2]))
                  /\ \A c \in LedgerCodes \ {x[1]} :
                        GetCodeSettings(db', c) = GetCodeSettings(db, c)
            /\ DeleteSetting(x[1], x[2]) =>
                  /\ Shown(GetCodeSettings(db', x[1]), x[2])
                        = Shown([Code |-> x[1], BlockInverted |-> FALSE,
                                 EntryDirection |-> DirectionBoth], x[2])
                  /\ Shown(GetCodeSettings(db', x[1]), OtherSetting(x[2]))
                        = Shown(GetCodeSettings(db, x[1]), OtherSetting(x[2]))
                  /\ \A c \in LedgerCodes \ {x[1]} :
                        GetCodeSettings(db', c) = GetCodeSettings(db, c)]_vars

\* Code 1098 has a row that switches BlockInverted off and no direction row,
\* while code 2098 is CREDIT_ONLY with BlockInverted on.
C33_Witness ==
    /\ <<1098, SettingBlockInverted>> \in DOMAIN db.settings
    /\ db.settings[<<1098, SettingBlockInverted>>] = "0"
    /\ <<1098, SettingEntryDirection>> \notin DOMAIN db.settings
    /\ GetCodeSettings(db, 2098) =
          [Code |-> 2098, BlockInverted |-> TRUE, EntryDirection |-> DirectionCreditOnly]

(***************************************************************************)
(* SpecConfig: the settings screen of the terminal client.  adm[1] is the  *)
(* configModel (rows, cursor, col, flashRow), adm[2] the commands the      *)
(* screen has handed to the runtime and that have not run yet.             *)
(***************************************************************************)
\* Upserts handed to the runtime and not yet run.
MaxInFlight == 2

Categories ==
    {CategoryAssets, CategoryLiabilities, CategoryEquity, CategoryRevenue, CategoryExpenses}

\* The chart entries of ~settlement (debit-normal) and ~tax (credit-normal),
\* sorted by code as configModel.init sorts.
ConfigCodes == <<1098, 2098>>

colBlockInverted == 0
colEntryDir == 1

\* The rows configModel.init builds from the chart and the settings listed.
configRows(d) ==
    [i \in 1..Len(ConfigCodes) |->
        [code |-> ConfigCodes[i],
         category |-> CategoryForCode(ConfigCodes[i]),
         settings |-> GetCodeSettings(d, ConfigCodes[i])]]

InitConfig ==
    /\ db = EmptyDB
    /\ writer = 0
    /\ adm = [p \in Procs |->
                IF p = 1
                THEN [pc |-> "config", rows |-> configRows(EmptyDB),
                      cursor |-> 0, col |-> colBlockInverted, flashRow |-> -1]
                ELSE [pc |-> "cmds", q |-> {}]]
    /\ res = [p \in Procs |-> ""]
    /\ del = Nil

UpsertCmd(code, setting, value) ==
    [kind |-> "upsert", code |-> code, setting |-> setting, value |-> value]

FlashClearCmd == [kind |-> "flashClear"]

KeyUp ==
    /\ adm' = [adm EXCEPT ![1].cursor = IF @ > 0 THEN @ - 1 ELSE @]
    /\ UNCHANGED <<db, writer, res, del>>

KeyDown ==
    /\ adm' = [adm EXCEPT ![1].cursor = IF @ < Len(adm[1].rows) - 1 THEN @ + 1 ELSE @]
    /\ UNCHANGED <<db, writer, res, del>>

KeyLeft ==
    /\ adm' = [adm EXCEPT ![1].col = IF @ > colBlockInverted THEN @ - 1 ELSE @]
    /\ UNCHANGED <<db, writer, res, del>>

KeyRight ==
    /\ adm' = [adm EXCEPT ![1].col = IF @ < colEntryDir THEN @ + 1 ELSE @]
    /\ UNCHANGED <<db, writer, res, del>>

\* The first direction after cur in the cycle BOTH, DEBIT_ONLY, CREDIT_ONLY
\* that the row may take; cur itself when none may.
NextDirection(row) ==
    LET cycle == <<DirectionBoth, DirectionDebitOnly, DirectionCreditOnly>>
        cur == row.settings.EntryDirection
        idx == IF \E i \in 1..3 : cycle[i] = cur
               THEN (CHOOSE i \in 1..3 : cycle[i] = cur) - 1 ELSE 0
        ok(step) == \/ ~row.settings.BlockInverted
                    \/ validDirection(row.category, cycle[((idx + step) % 3) + 1])
    IN  IF \E step \in 1..3 : ok(step)
        THEN cycle[((idx + (CHOOSE step \in 1..3 :
                              ok(step) /\ \A s \in 1..(step - 1) : ~ok(s))) % 3) + 1]
        ELSE cur

\* configModel.toggleSetting on the space or enter key.
toggleSetting ==
    LET m == adm[1]
        i == m.cursor + 1
        row == m.rows[i]
        flipped == ~row.settings.BlockInverted
        fix == flipped /\ ~validDirection(row.category, row.settings.EntryDirection)
        cmds ==
            IF m.col = colBlockInverted
            THEN {UpsertCmd(row.code, SettingBlockInverted, IF flipped THEN "1" ELSE "0")}
                 \cup (IF fix
                       THEN {UpsertCmd(row.code, SettingEntryDirection,
                                       correctedDirection(row.category)),
                             FlashClearCmd}
                       ELSE {})
            ELSE {UpsertCmd(row.code, SettingEntryDirection, NextDirection(row))}
    IN  /\ m.cursor >= 0 /\ m.cursor < Len(m.rows)
        /\ Cardinality({c \in adm[2].q \cup cmds : c.kind = "upsert"}) <= MaxInFlight
        /\ adm' = [adm EXCEPT
               ![1] = IF m.col = colBlockInverted
                      THEN [m EXCEPT
                              !.rows[i].settings.BlockInverted = flipped,
                              !.rows[i].settings.EntryDirection =
                                  IF fix THEN correctedDirection(row.category) ELSE @,
                              !.flashRow = IF fix THEN m.cursor ELSE @]
                      ELSE [m EXCEPT !.rows[i].settings.EntryDirection = NextDirection(row)],
               ![2].q = @ \cup cmds]
        /\ UNCHANGED <<db, writer, res, del>>

\* A command of the batch runs: client.UpsertSetting, answered without error.
RunUpsert ==
    \E c \in adm[2].q :
        /\ c.kind = "upsert"
        /\ writer = 0
        /\ db' = [db EXCEPT !.settings = Put(@, <<c.code, c.setting>>, c.value)]
        /\ adm' = [adm EXCEPT ![2].q = @ \ {c}]
        /\ UNCHANGED <<writer, res, del>>

\* The tick of 800 ms delivers configFlashClearMsg.
FlashClear ==
    /\ FlashClearCmd \in adm[2].q
    /\ adm' = [adm EXCEPT ![1].flashRow = -1, ![2].q = @ \ {FlashClearCmd}]
    /\ UNCHANGED <<db, writer, res, del>>

NextConfig ==
    \/ KeyUp
    \/ KeyDown
    \/ KeyLeft
    \/ KeyRight
    \/ toggleSetting
    \/ RunUpsert
    \/ FlashClear

SpecConfig == InitConfig /\ [][NextConfig]_vars

\* C34: validDirection(category, BOTH) is true for every category;
\* CREDIT_ONLY is invalid exactly for assets and expenses; DEBIT_ONLY is
\* invalid exactly for liabilities, equity and revenue; the direction
\* correctedDirection gives for a category is valid for it; so every row
\* of the settings screen with BlockInverted on shows a valid direction.
C34_SafeDirectionIsValid ==
    /\ \A cat \in Categories :
          /\ validDirection(cat, DirectionBoth)
          /\ ~validDirection(cat, DirectionCreditOnly)
                <=> cat \in {CategoryAssets, CategoryExpenses}
          /\ ~validDirection(cat, DirectionDebitOnly)
                <=> cat \in {CategoryLiabilities, CategoryEquity, CategoryRevenue}
          /\ validDirection(cat, correctedDirection(cat))
    /\ \A i \in 1..Len(adm[1].rows) :
          adm[1].rows[i].settings.BlockInverted =>
              validDirection(adm[1].rows[i].category, adm[1].rows[i].settings.EntryDirection)

\* The screen has just corrected a credit-normal row to CREDIT_ONLY, after
\* it corrected the assets row to DEBIT_ONLY.
C34_Witness ==
    /\ adm[1].flashRow >= 1
    /\ adm[1].rows[adm[1].flashRow + 1].settings =
          [Code |-> ConfigCodes[adm[1].flashRow + 1], BlockInverted |-> TRUE,
           EntryDirection |-> DirectionCreditOnly]
    /\ adm[1].rows[1].settings =
          [Code |-> 1098, BlockInverted |-> TRUE, EntryDirection |-> DirectionDebitOnly]

(***************************************************************************)
(* SpecShapes: clients create non-system accounts of the codes 1010, 1060, *)
(* 2010 and 2020 under ids with and without the directional arrows.        *)
(***************************************************************************)
NOSTRO == <<"<", "b", ":", "u", "s", "d", ">">>
VOSTRO == <<">", "b", ":", "u", "s", "d", "<">>
SHORTCCY == <<"<", "b", ":", "u", "s", ">">>

ShapeIDs == {E, NOSTRO, VOSTRO, SHORTCCY}
ShapeCodes == {1010, 1060, 2010, 2020}

ShapeInputs ==
    {[ID |-> id, Name |-> "n", Code |-> c, Category |-> CategoryForCode(c),
      Currency |-> "USD", IsSystem |-> FALSE] : id \in ShapeIDs, c \in ShapeCodes}

NextShapes == \E a \in ShapeInputs : CreateAccount(a)

SpecShapes == Init /\ [][NextShapes]_vars

\* C36: a non-system account is stored only with an ID of the shape its
\* code requires: <name:ccy> for the codes 1010 and 1060, >name:ccy< for
\* the code 2010; under every other code any non-empty ID is accepted.
C36_IDShapePerCode ==
    /\ \A id \in DOMAIN db.accounts :
          db.accounts[id].is_system = 0 =>
              /\ db.accounts[id].code \in {1010, 1060} => nostroPattern(id)
              /\ db.accounts[id].code = 2010 => vostroPattern(id)
    /\ \A a \in ShapeInputs :
          (a.Code = 2020 /\ a.ID \notin DOMAIN db.accounts) => ENABLED CreateAccount(a)

(***************************************************************************)
(* Reports and admissions, under SpecSteps.  The report queries run on the *)
(* reader connection: they see the committed database db, never the        *)
(* working copy of a unit of work.                                         *)
(***************************************************************************)
\* C37: in every reachable state the balance a balance-sheet or
\* trial-balance line shows for an account is AccountBalance of that
\* account, the sum over its entries of finalized transactions; the trial
\* balance has a line exactly for the accounts whose AccountBalance is not
\* zero; every entry the reports read belongs to a finalized transaction;
\* and the entries of a unit of work that has not finalized its
\* transaction contribute to no balance shown.
C37_ReportsCountFinalizedOnly ==
    /\ \A id \in DOMAIN db.accounts :
          /\ AccountBalance(db, id).err = "ok"
          /\ SheetBalance(db, id) = AccountBalance(db, id).balance
    /\ TrialBalance(db).Lines =
          {id \in DOMAIN db.accounts : AccountBalance(db, id).balance # 0}
    /\ \A e \in Range(db.entries) : IsFinalized(db, e.transaction_id)
    /\ adm[1].pc \in TxPCs \ {"commit"} =>
          \A id \in DOMAIN db.accounts :
              SheetBalance(db, id) = FinalizedBalance(adm[1].w, id)

\* ~settlement has a balance from a finalized transaction while a unit of
\* work holds further entries on it, inserted and not yet finalized.
C37_Witness ==
    /\ adm[1].pc = "check"
    /\ SheetBalance(db, SETTLEMENT) # 0
    /\ SheetBalance(adm[1].w, SETTLEMENT) # SheetBalance(db, SETTLEMENT)
    /\ ~IsFinalized(adm[1].w, adm[1].t.id)

\* The amounts transaction t posts to account id, added up.
PostedTo(t, id) == SumAmounts(SelectSeq(t.entries, LAMBDA e : e.account_id = id))

\* C38: the commit of an admission moves the finalized balance of each
\* account by the sum of the entries the transaction has on it, which is
\* zero for an account it does not name, and leaves the accounts table,
\* the settings, and every earlier transaction with its entries as they
\* were.
C38_SuccessChangesOnlyItsEntries ==
    [][(adm[1].pc = "commit" /\ adm'[1] = Idle /\ res'[1] = "ok") =>
          /\ \A id \in DOMAIN db.accounts :
                FinalizedBalance(db', id)
                    = FinalizedBalance(db, id) + PostedTo(adm[1].t, id)
          /\ db'.accounts = db.accounts
          /\ db'.settings = db.settings
          /\ \A id \in DOMAIN db.transactions :
                /\ id \in DOMAIN db'.transactions
                /\ db'.transactions[id] = db.transactions[id]
                /\ EntriesOfTxn(db', id) = EntriesOfTxn(db, id)]_vars

\* A second transaction has been admitted on ~settlement, next to an
\* earlier one, with a setting in force on code 1098.
C38_Witness ==
    /\ adm[1] = Idle /\ res[1] = "ok"
    /\ Cardinality(DOMAIN db.transactions) >= 2
    /\ DOMAIN db.settings # {}
    /\ \A id \in DOMAIN db.transactions :
          \E e \in Range(db.entries) :
              e.transaction_id = id /\ e.account_id = SETTLEMENT /\ e.amount # 0

\* C39: transaction ids are unique.  A request under the id of a stored
\* transaction is turned down, by the INSERT of its row when it passes
\* validation, and the database is as before: no entry is added and the
\* stored transaction keeps its row and its entries; and every entry
\* belongs to exactly one stored transaction row.
C39_DuplicateIDRejected ==
    /\ [](\A t \in TxnInputs(DOMAIN db.transactions, StepAccounts) \cup Resubmissions :
            /\ CreateTransactionResult(db, t).err # "ok"
            /\ Validate(t) = "ok" => CreateTransactionResult(db, t).err = "insert transaction"
            /\ CreateTransactionResult(db, t).db = db)
    /\ [][(adm[1].pc = "insert" /\ adm[1].t.id \in DOMAIN db.transactions) =>
             /\ adm'[1] = Idle
             /\ res'[1] \in {"insert transaction", "storage"}
             /\ db' = db]_vars

\* A stored transaction was sent again under its id and turned down at
\* the INSERT of its row.
C39_Witness ==
    /\ adm[1] = Idle
    /\ res[1] = "insert transaction"
    /\ DOMAIN db.transactions # {}
    /\ \A id \in DOMAIN db.transactions :
          IsFinalized(db, id) /\ Len(EntriesOfTxn(db, id)) >= 2

====
